---- MODULE Spec2Model ----
(***************************************************************************)
(* A model of mcp-sqlite-server: the path guard (validateDirectory,        *)
(* validateFilePath), the database handle (SQLiteDB) and the tool handlers *)
(* of SQLiteServer.  Paths and SQL statements are strings, handled with    *)
(* the same string operations the Go code applies to them.                 *)
(***************************************************************************)
EXTENDS Integers, Sequences, FiniteSets, TLC

VARIABLES
    server,   \* SQLiteServer: [db, dbPath, allowedDirs]; db is "nil" or "handle"
    sqlite,   \* SQLiteDB, the handle server.db points to: [db, dbPath]
    conns,    \* the connections opened through the handle and not closed yet
    fs,       \* the files on disk: resolved path -> content
    proc,     \* the process: "running", "crashed" (a panic), "closed", "exited"
    last      \* the last call: what was called, with what, and what it returned

vars == <<server, sqlite, conns, fs, proc, last>>

(***************************************************************************)
(* Go's strings package, as used by the handlers.                          *)
(***************************************************************************)
HasPrefix(s, prefix) ==
    /\ Len(prefix) <= Len(s)
    /\ SubSeq(s, 1, Len(prefix)) = prefix

HasSuffix(s, suffix) ==
    /\ Len(suffix) <= Len(s)
    /\ SubSeq(s, Len(s) - Len(suffix) + 1, Len(s)) = suffix

TrimSuffix(s, suffix) ==
    IF HasSuffix(s, suffix) THEN SubSeq(s, 1, Len(s) - Len(suffix)) ELSE s

(***************************************************************************)
(* Bounds of the path-guard specification.                                 *)
(***************************************************************************)
MaxPathLen == 5

PathChars == {"/", ".", "d"}

RECURSIVE StringsUpTo(_)
StringsUpTo(n) ==
    IF n = 0 THEN {""}
    ELSE LET shorter == StringsUpTo(n - 1)
         IN  shorter \cup {s \o c : s \in shorter, c \in PathChars}

GuardPaths == StringsUpTo(MaxPathLen)

GuardRootLists ==
    { <<>>, <<"/d">>, <<"/d/">>, <<"/d//">>, <<"/dd", "/d">>, <<"/d/d/", "/dd">> }

(***************************************************************************)
(* Path resolution.  filepath.Join cleans its result and the operating     *)
(* system resolves "." and ".." segments: Clean is Go's filepath.Clean.    *)
(***************************************************************************)
RECURSIVE SplitFrom(_, _, _, _)
SplitFrom(s, i, cur, acc) ==
    IF i > Len(s) THEN Append(acc, cur)
    ELSE IF SubSeq(s, i, i) = "/" THEN SplitFrom(s, i + 1, "", Append(acc, cur))
    ELSE SplitFrom(s, i + 1, cur \o SubSeq(s, i, i), acc)

Split(s) == SplitFrom(s, 1, "", <<>>)

RECURSIVE JoinSegs(_)
JoinSegs(segs) ==
    IF segs = <<>> THEN ""
    ELSE IF Len(segs) = 1 THEN segs[1]
    ELSE segs[1] \o "/" \o JoinSegs(Tail(segs))

RECURSIVE CleanSegs(_, _, _)
CleanSegs(segs, rooted, acc) ==
    IF segs = <<>> THEN acc
    ELSE LET seg == Head(segs)
             rest == Tail(segs)
         IN  IF seg = "" \/ seg = "." THEN CleanSegs(rest, rooted, acc)
             ELSE IF seg = ".." THEN
                 IF acc # <<>> /\ acc[Len(acc)] # ".."
                 THEN CleanSegs(rest, rooted, SubSeq(acc, 1, Len(acc) - 1))
                 ELSE IF rooted THEN CleanSegs(rest, rooted, acc)
                 ELSE CleanSegs(rest, rooted, Append(acc, ".."))
             ELSE CleanSegs(rest, rooted, Append(acc, seg))

\* The cleaned path of its segments.
JoinCleaned(rooted, segs) ==
    IF rooted THEN "/" \o JoinSegs(segs)
    ELSE IF segs = <<>> THEN "."
    ELSE JoinSegs(segs)

Clean(path) == JoinCleaned(HasPrefix(path, "/"), CleanSegs(Split(path), HasPrefix(path, "/"), <<>>))

\* filepath.Join of a directory and a name.
Join(dir, name) == IF dir = "" THEN Clean(name) ELSE Clean(dir \o "/" \o name)

(***************************************************************************)
(* The path guard.                                                         *)
(***************************************************************************)
RECURSIVE DirAllowedFrom(_, _, _)
DirAllowedFrom(dirs, i, normalizedDir) ==
    IF i > Len(dirs) THEN FALSE
    ELSE IF normalizedDir = TrimSuffix(dirs[i], "/") THEN TRUE
    ELSE DirAllowedFrom(dirs, i + 1, normalizedDir)

\* validateDirectory without the trimming of the requested directory's
\* trailing "/".
validateDirectory_Untrimmed(dirs, directory) ==
    IF (directory = "." \/ directory = "./") /\ Len(dirs) = 0
    THEN "ErrNoAllowedDirs"
    ELSE LET dir == IF directory = "." \/ directory = "./" THEN dirs[1] ELSE directory
         IN  IF DirAllowedFrom(dirs, 1, dir) THEN "ok" ELSE "ErrDirNotAllowed"

validateDirectory(dirs, directory) ==
    IF (directory = "." \/ directory = "./") /\ Len(dirs) = 0
    THEN "ErrNoAllowedDirs"
    ELSE LET dir == IF directory = "." \/ directory = "./" THEN dirs[1] ELSE directory
         IN  IF DirAllowedFrom(dirs, 1, TrimSuffix(dir, "/"))
             THEN "ok"
             ELSE "ErrDirNotAllowed"

RECURSIVE FileAllowedFrom(_, _, _)
FileAllowedFrom(dirs, i, filePath) ==
    IF i > Len(dirs) THEN FALSE
    ELSE LET normalizedAllowedDir == TrimSuffix(dirs[i], "/")
         IN  IF \/ HasPrefix(filePath, normalizedAllowedDir \o "/")
                \/ HasPrefix(filePath, normalizedAllowedDir)
             THEN TRUE
             ELSE FileAllowedFrom(dirs, i + 1, filePath)

validateFilePath(dirs, filePath) ==
    IF FileAllowedFrom(dirs, 1, filePath) THEN "ok" ELSE "ErrFileNotAllowed"

(***************************************************************************)
(* The state of a server that has no handle and of a disk with no files.   *)
(***************************************************************************)
NoHandle == [db |-> [id |-> 0, file |-> ""], dbPath |-> ""]

NoFiles == [f \in {} |-> [kind |-> "junk"]]

(***************************************************************************)
(* The path-guard specification: the two checks applied to every path of   *)
(* GuardPaths under every root list of GuardRootLists.  The initial state  *)
(* holds the input; each action applies one check to it.                   *)
(***************************************************************************)
GuardInit ==
    /\ \E roots \in GuardRootLists :
          server = [db |-> "nil", dbPath |-> "", allowedDirs |-> roots]
    /\ sqlite = NoHandle
    /\ conns = {}
    /\ fs = NoFiles
    /\ proc = "running"
    /\ \E p \in GuardPaths : last = [op |-> "input", path |-> p]

GuardDirectory ==
    /\ last.op = "input"
    /\ last' = [op |-> "validateDirectory", path |-> last.path,
                res |-> validateDirectory(server.allowedDirs, last.path)]
    /\ UNCHANGED <<server, sqlite, conns, fs, proc>>

GuardFilePath ==
    /\ last.op = "input"
    /\ last' = [op |-> "validateFilePath", path |-> last.path,
                res |-> validateFilePath(server.allowedDirs, last.path)]
    /\ UNCHANGED <<server, sqlite, conns, fs, proc>>

GuardNext == GuardDirectory \/ GuardFilePath

SpecGuard == GuardInit /\ [][GuardNext]_vars

(***************************************************************************)
(* Claims about the path guard.                                            *)
(***************************************************************************)
IsDot(p) == p = "." \/ p = "./"

EqualsSomeRoot(roots, p) ==
    \E i \in 1..Len(roots) : TrimSuffix(p, "/") = TrimSuffix(roots[i], "/")

\* C1 (as amended): validateDirectory(p) succeeds iff p with one trailing "/"
\* stripped equals some entry of R stripped the same way, or p is "." or "./"
\* and R is non-empty; otherwise it returns the 'not in allowed directories'
\* error, except for "." or "./" with R empty, where it returns the 'no allowed
\* directories configured' error.
C1_ValidateDirectory ==
    last.op = "validateDirectory" =>
        LET roots == server.allowedDirs
            p == last.path
            accepted == EqualsSomeRoot(roots, p) \/ (IsDot(p) /\ roots # <<>>)
        IN  /\ (last.res = "ok") <=> accepted
            /\ ~accepted =>
                 last.res = IF IsDot(p) /\ roots = <<>>
                            THEN "ErrNoAllowedDirs"
                            ELSE "ErrDirNotAllowed"

\* C1 witness: a path with a trailing separator is accepted against a root
\* written without one.
C1_Witness ==
    /\ last.op = "validateDirectory"
    /\ last.path = "/d/"
    /\ server.allowedDirs = <<"/dd", "/d">>
    /\ last.res = "ok"

\* C1 as stated: every rejection, including every p when R is empty, is the
\* 'not in allowed directories' error.
C1_Original ==
    last.op = "validateDirectory" =>
        LET roots == server.allowedDirs
            p == last.path
            accepted == EqualsSomeRoot(roots, p) \/ (IsDot(p) /\ roots # <<>>)
        IN  /\ (last.res = "ok") <=> accepted
            /\ ~accepted => last.res = "ErrDirNotAllowed"

\* A path lies within a root when, once resolved, it is the root or is nested
\* under it (the root followed by a separator).
Within(path, root) ==
    LET r == Clean(root)
        c == Clean(path)
    IN  \/ c = r
        \/ HasPrefix(c, IF r = "/" THEN r ELSE r \o "/")

WithinSomeRoot(roots, path) ==
    \E i \in 1..Len(roots) : Within(path, roots[i])

\* C2: validateFilePath(p) succeeds only if p is equal to, or nested under,
\* some allowed root: a sibling that only shares a textual prefix with a root,
\* or a path that leaves the root through ".." segments, is rejected.
C2_FilePathConfined ==
    (last.op = "validateFilePath" /\ last.res = "ok") =>
        WithinSomeRoot(server.allowedDirs, last.path)

(***************************************************************************)
(* Values of the untyped argument object of a tool call.                   *)
(***************************************************************************)
Absent == [t |-> "absent"]
Str(s) == [t |-> "string", v |-> s]
Bool(b) == [t |-> "bool", v |-> b]
Num(n) == [t |-> "number", v |-> n]

IsString(a) == a.t = "string"
IsBool(a) == a.t = "bool"

(***************************************************************************)
(* The disk and the SQLite engine.  A file is junk (not a database), or a  *)
(* database with its tables and the rows of its table t.  Opening a path   *)
(* whose file is absent creates an empty database there, which is what     *)
(* CreateNewDatabase relies on.                                            *)
(***************************************************************************)
Dirs == {"/d", "/dd"}

Junk == [kind |-> "junk"]
Database(tables, rows) == [kind |-> "db", tables |-> tables, rows |-> rows]
EmptyDatabase == Database({}, {})

DirOfSegs(segs) ==
    IF Len(segs) = 1 THEN "."
    ELSE IF Len(segs) = 2 /\ segs[1] = "" THEN "/"
    ELSE JoinSegs(SubSeq(segs, 1, Len(segs) - 1))

DirOf(path) == DirOfSegs(Split(path))

\* In the operators below, file is the cleaned path that the operating
\* system resolves a path to.
IsFileOrDir(fsys, file) == file \in DOMAIN fsys \/ file \in Dirs

\* os.Stat(path) finds something.
Exists(fsys, path) == IsFileOrDir(fsys, Clean(path))

IsDir(path) == Clean(path) \in Dirs

WriteFile(fsys, file, content) ==
    [f \in DOMAIN fsys \cup {file} |-> IF f = file THEN content ELSE fsys[f]]

RemoveFile(fsys, file) ==
    [f \in DOMAIN fsys \ {file} |-> fsys[f]]

CanOpenFile(fsys, file) ==
    /\ file \notin Dirs
    /\ file \in DOMAIN fsys \/ DirOf(file) \in Dirs

AfterOpenFile(fsys, file) ==
    IF CanOpenFile(fsys, file) /\ file \notin DOMAIN fsys
    THEN WriteFile(fsys, file, EmptyDatabase)
    ELSE fsys

\* sql.Open and Ping of a path succeed.
CanOpen(fsys, path) == CanOpenFile(fsys, Clean(path))

\* The disk after sql.Open and Ping of a path.
AfterOpen(fsys, path) == AfterOpenFile(fsys, Clean(path))

\* A query of sqlite_master succeeds on the file.
Queryable(fsys, file) == file \in DOMAIN fsys /\ fsys[file].kind = "db"

\* The first 16 bytes of the file are the SQLite header.
HasHeader(fsys, file) ==
    /\ file \in DOMAIN fsys
    /\ fsys[file].kind = "db"
    /\ fsys[file].tables # {}

DatabaseExistsFile(fsys, file) ==
    IF ~CanOpenFile(fsys, file)
    THEN [exists |-> FALSE, fs |-> fsys]
    ELSE [exists |-> Queryable(AfterOpenFile(fsys, file), file),
          fs |-> AfterOpenFile(fsys, file)]

DatabaseExists(fsys, dbPath) == DatabaseExistsFile(fsys, Clean(dbPath))

isValidSQLiteFile(fsys, filePath) == HasHeader(fsys, Clean(filePath))

DeleteFile(fsys, file) ==
    IF ~IsFileOrDir(fsys, file) THEN [err |-> "ErrNotFound", fs |-> fsys]
    ELSE IF file \in Dirs THEN [err |-> "ErrRemove", fs |-> fsys]
    ELSE [err |-> "ok", fs |-> RemoveFile(fsys, file)]

DeleteDatabase(fsys, dbPath) == DeleteFile(fsys, Clean(dbPath))

(***************************************************************************)
(* filepath.Glob returns the matching names of a directory sorted.         *)
(***************************************************************************)
CharOrder == <<".", "/", "0", "1", "2", "3", "_", "a", "b", "c", "d", "e",
               "i", "l", "q", "s", "t">>

Rank(c) == CHOOSE i \in 1..Len(CharOrder) : CharOrder[i] = c

RECURSIVE LexLess(_, _)
LexLess(a, b) ==
    IF Len(b) = 0 THEN FALSE
    ELSE IF Len(a) = 0 THEN TRUE
    ELSE LET x == Rank(SubSeq(a, 1, 1))
             y == Rank(SubSeq(b, 1, 1))
         IN  IF x # y THEN x < y
             ELSE LexLess(SubSeq(a, 2, Len(a)), SubSeq(b, 2, Len(b)))

RECURSIVE Sorted(_)
Sorted(S) ==
    IF S = {} THEN <<>>
    ELSE LET least == CHOOSE x \in S : \A y \in S \ {x} : LexLess(x, y)
         IN  <<least>> \o Sorted(S \ {least})

\* filepath.Glob of the cleaned directory dir with the pattern "*" \o ext.
Glob(fsys, dir, ext) ==
    Sorted({f \in DOMAIN fsys : DirOf(f) = dir /\ HasSuffix(f, ext)})

\* ListDatabaseFiles that keeps every matching file.
KeepValid_Unfiltered(fsys, file, rest) == <<file>> \o rest

KeepValid(fsys, file, rest) ==
    IF DatabaseExists(fsys, file).exists \/ isValidSQLiteFile(fsys, file)
    THEN <<file>> \o rest
    ELSE rest

RECURSIVE ValidOnly(_, _)
ValidOnly(fsys, files) ==
    IF files = <<>> THEN <<>>
    ELSE KeepValid(fsys, Head(files), ValidOnly(fsys, Tail(files)))

ListMatches(fsys, dir) ==
    ValidOnly(fsys, Glob(fsys, dir, ".db") \o Glob(fsys, dir, ".sqlite")
                        \o Glob(fsys, dir, ".sqlite3"))

ListDatabaseFiles(fsys, dirPath) ==
    ListMatches(fsys, Clean(IF dirPath = "" THEN "." ELSE dirPath))

(***************************************************************************)
(* strings.ToUpper, strings.ToLower and strings.TrimSpace.                 *)
(***************************************************************************)
LowerCase == "abcdefghijklmnopqrstuvwxyz"
UpperCase == "ABCDEFGHIJKLMNOPQRSTUVWXYZ"

RECURSIVE IndexIn(_, _, _)
IndexIn(c, alphabet, i) ==
    IF i > Len(alphabet) THEN 0
    ELSE IF SubSeq(alphabet, i, i) = c THEN i
    ELSE IndexIn(c, alphabet, i + 1)

MapChar(c, from, to) ==
    LET i == IndexIn(c, from, 1)
    IN  IF i = 0 THEN c ELSE SubSeq(to, i, i)

RECURSIVE MapString(_, _, _)
MapString(s, from, to) ==
    IF Len(s) = 0 THEN ""
    ELSE MapChar(SubSeq(s, 1, 1), from, to) \o MapString(SubSeq(s, 2, Len(s)), from, to)

ToUpper(s) == MapString(s, LowerCase, UpperCase)
ToLower(s) == MapString(s, UpperCase, LowerCase)

IsSpace(c) == c = " " \/ c = "\t" \/ c = "\n" \/ c = "\r"

RECURSIVE TrimLeft(_)
TrimLeft(s) ==
    IF Len(s) > 0 /\ IsSpace(SubSeq(s, 1, 1)) THEN TrimLeft(SubSeq(s, 2, Len(s))) ELSE s

RECURSIVE TrimRight(_)
TrimRight(s) ==
    IF Len(s) > 0 /\ IsSpace(SubSeq(s, Len(s), Len(s)))
    THEN TrimRight(SubSeq(s, 1, Len(s) - 1))
    ELSE s

TrimSpace(s) == TrimRight(TrimLeft(s))

(***************************************************************************)
(* The SQLite engine on the statements of the model.  A database has at    *)
(* most the table t, with one integer primary-key column.                  *)
(***************************************************************************)
MaxRow == 2

Rows == 1..MaxRow

Digit(n) == SubSeq("0123456789", n + 1, n + 1)

InsertText(n) == "INSERT INTO T VALUES(" \o Digit(n) \o ")"

\* What a statement is to the engine, which ignores case and outer
\* whitespace: Classify takes the upper-cased, trimmed text.
Classify(u) ==
    IF \E n \in Rows : u = InsertText(n)
    THEN [op |-> "insert", row |-> CHOOSE n \in Rows : u = InsertText(n)]
    ELSE IF u = "DELETE FROM T" THEN [op |-> "delete"]
    ELSE IF u = "COMMIT" THEN [op |-> "commit"]
    ELSE IF u = "SELECT * FROM T" THEN [op |-> "select"]
    ELSE IF u = "SELECT 1" THEN [op |-> "const"]
    ELSE IF u = "VACUUM" THEN [op |-> "vacuum"]
    ELSE [op |-> "syntax error"]

Parse(text) == Classify(TrimSpace(ToUpper(text)))

(***************************************************************************)
(* SQLiteDB, the handle.  w is the state the call runs in:                 *)
(* [server, sqlite, conns, fs].                                            *)
(***************************************************************************)
Max(a, b) == IF a >= b THEN a ELSE b

\* The identifier of a connection that sql.Open creates.
NewConn(open) == CHOOSE id \in 1..(Cardinality(open) + 1) : id \notin open

IsOpen(w) == w.sqlite.db.id \in w.conns

NewSQLiteDB(w, dbPath, openOk) ==
    IF ~openOk \/ ~CanOpen(w.fs, dbPath)
    THEN [err |-> "ErrOpen", w |-> w]
    ELSE LET id == NewConn(w.conns)
         IN  [err |-> "ok",
              w |-> [w EXCEPT !.fs = AfterOpen(w.fs, dbPath),
                              !.conns = w.conns \cup {id},
                              !.sqlite = [db |-> [id |-> id, file |-> Clean(dbPath)],
                                          dbPath |-> dbPath]]]

\* SQLiteDB.Close: sql.DB.Close of the handle's connection.
CloseDB(w) == [w EXCEPT !.conns = w.conns \ {w.sqlite.db.id}]

\* SwitchDatabase that opens the new connection before it closes the old one.
SwitchDatabase_OpenFirst(w, newDbPath, openOk) ==
    IF ~openOk \/ ~CanOpen(w.fs, newDbPath)
    THEN [err |-> "ErrOpen", w |-> CloseDB(w), peak |-> Cardinality(w.conns)]
    ELSE LET id == NewConn(w.conns)
             opened == [w EXCEPT !.fs = AfterOpen(w.fs, newDbPath),
                                 !.conns = w.conns \cup {id}]
             closed == [CloseDB(opened) EXCEPT
                          !.sqlite = [db |-> [id |-> id, file |-> Clean(newDbPath)],
                                      dbPath |-> newDbPath]]
         IN  [err |-> "ok", w |-> closed,
              peak |-> Max(Cardinality(opened.conns), Cardinality(closed.conns))]

SwitchDatabase(w, newDbPath, openOk) ==
    LET closed == CloseDB(w)
    IN  IF ~openOk \/ ~CanOpen(closed.fs, newDbPath)
        THEN [err |-> "ErrOpen", w |-> closed,
              peak |-> Max(Cardinality(w.conns), Cardinality(closed.conns))]
        ELSE LET id == NewConn(closed.conns)
                 opened == [closed EXCEPT
                              !.fs = AfterOpen(closed.fs, newDbPath),
                              !.conns = closed.conns \cup {id},
                              !.sqlite = [db |-> [id |-> id, file |-> Clean(newDbPath)],
                                          dbPath |-> newDbPath]]
             IN  [err |-> "ok", w |-> opened,
                  peak |-> Max(Cardinality(w.conns),
                               Max(Cardinality(closed.conns), Cardinality(opened.conns)))]

GetCurrentDatabasePath(w) == w.sqlite.dbPath

\* The database the handle's connection reads and writes.  A file removed
\* from the directory while the connection is open stays usable through it.
Content(w) ==
    LET file == w.sqlite.db.file
    IN  IF file \in DOMAIN w.fs THEN w.fs[file] ELSE EmptyDatabase

ExecuteQuery(w, query) ==
    LET stmt == Parse(query)
        db == Content(w)
    IN  IF ~IsOpen(w) THEN [err |-> "ErrClosed", rows |-> {}]
        ELSE IF db.kind # "db" THEN [err |-> "ErrEngine", rows |-> {}]
        ELSE IF stmt.op = "const" THEN [err |-> "ok", rows |-> {1}]
        ELSE IF stmt.op = "select" /\ "t" \in db.tables
             THEN [err |-> "ok", rows |-> db.rows]
        ELSE [err |-> "ErrEngine", rows |-> {}]

(***************************************************************************)
(* The tool handlers of SQLiteServer.  Each takes the state w the call     *)
(* runs in and the arguments, and gives the result, the state after the    *)
(* call, what the call returned (out) and the largest number of            *)
(* connections that were open at once during it (peak).  A nil             *)
(* dereference is the result "panic".  acc lists, in the order the handler *)
(* makes them, its calls to the path guard, to the database package and to *)
(* the handle, each with the path or statement it is given.                *)
(***************************************************************************)
Call(name, arg) == [call |-> name, arg |-> arg]

After(acc, result) == [result EXCEPT !.acc = acc]

Result(res, w, out) ==
    [res |-> res, w |-> w, out |-> out, peak |-> Cardinality(w.conns), acc |-> <<>>]

handleQuery(w, query) ==
    IF ~IsString(query) THEN Result("ErrArg", w, "")
    ELSE LET trimmedQuery == TrimSpace(ToUpper(query.v))
         IN  IF ~HasPrefix(trimmedQuery, "SELECT") /\ ~HasPrefix(trimmedQuery, "PRAGMA")
             THEN Result("ErrNotQuery", w, "")
             ELSE IF w.server.db = "nil"
                  THEN After(<<Call("ExecuteQuery", query.v)>>, Result("panic", w, ""))
             ELSE LET results == ExecuteQuery(w, query.v)
                  IN  After(<<Call("ExecuteQuery", query.v)>>,
                            IF results.err # "ok" THEN Result(results.err, w, "")
                            ELSE Result("ok", w, [database |-> GetCurrentDatabasePath(w),
                                                  rows |-> results.rows]))

\* handleDatabaseExists that checks the file before it checks the path.
handleDatabaseExists_CheckFirst(w, dbPath) ==
    IF ~IsString(dbPath) THEN Result("ErrArg", w, "")
    ELSE LET check == DatabaseExists(w.fs, dbPath.v)
             checked == [w EXCEPT !.fs = check.fs]
         IN  IF validateFilePath(w.server.allowedDirs, dbPath.v) # "ok"
             THEN After(<<Call("DatabaseExists", dbPath.v),
                          Call("validateFilePath", dbPath.v)>>,
                        Result("ErrFileNotAllowed", checked, ""))
             ELSE After(<<Call("DatabaseExists", dbPath.v),
                          Call("validateFilePath", dbPath.v)>>,
                        Result("ok", checked,
                               IF check.exists THEN "exists and is valid"
                               ELSE "does not exist"))

handleDatabaseExists(w, dbPath) ==
    IF ~IsString(dbPath) THEN Result("ErrArg", w, "")
    ELSE IF validateFilePath(w.server.allowedDirs, dbPath.v) # "ok"
         THEN After(<<Call("validateFilePath", dbPath.v)>>,
                    Result("ErrFileNotAllowed", w, ""))
    ELSE LET check == DatabaseExists(w.fs, dbPath.v)
         IN  After(<<Call("validateFilePath", dbPath.v), Call("DatabaseExists", dbPath.v)>>,
                   Result("ok", [w EXCEPT !.fs = check.fs],
                          IF check.exists THEN "exists and is valid" ELSE "does not exist"))

\* handleSwitchDatabase that does not record the new path in the server.
handleSwitchDatabase_StalePath(w, dbPath, openOk) ==
    IF ~IsString(dbPath) THEN Result("ErrArg", w, "")
    ELSE IF validateFilePath(w.server.allowedDirs, dbPath.v) # "ok"
         THEN After(<<Call("validateFilePath", dbPath.v)>>,
                    Result("ErrFileNotAllowed", w, ""))
    ELSE LET check == DatabaseExists(w.fs, dbPath.v)
             checked == [w EXCEPT !.fs = check.fs]
             guarded == <<Call("validateFilePath", dbPath.v),
                          Call("DatabaseExists", dbPath.v)>>
         IN  IF ~check.exists THEN After(guarded, Result("ErrNotFound", checked, ""))
             ELSE IF w.server.db = "nil"
                  THEN After(Append(guarded, Call("SwitchDatabase", dbPath.v)),
                             Result("panic", checked, ""))
             ELSE LET switch == SwitchDatabase(checked, dbPath.v, openOk)
                  IN  IF switch.err # "ok"
                      THEN [res |-> "ErrSwitch", w |-> switch.w, out |-> "",
                            peak |-> switch.peak,
                            acc |-> Append(guarded, Call("SwitchDatabase", dbPath.v))]
                      ELSE [res |-> "ok", w |-> switch.w,
                            out |-> dbPath.v, peak |-> switch.peak,
                            acc |-> Append(guarded, Call("SwitchDatabase", dbPath.v))]

\* handleSwitchDatabase that closes the active connection before it looks at
\* its argument.
handleSwitchDatabase_CloseFirst(w, dbPath, openOk) ==
    IF ~IsString(dbPath) THEN Result("ErrArg", CloseDB(w), "")
    ELSE IF validateFilePath(w.server.allowedDirs, dbPath.v) # "ok"
         THEN After(<<Call("validateFilePath", dbPath.v)>>,
                    Result("ErrFileNotAllowed", CloseDB(w), ""))
    ELSE LET check == DatabaseExists(w.fs, dbPath.v)
             checked == [CloseDB(w) EXCEPT !.fs = check.fs]
             guarded == <<Call("validateFilePath", dbPath.v),
                          Call("DatabaseExists", dbPath.v)>>
         IN  IF ~check.exists THEN After(guarded, Result("ErrNotFound", checked, ""))
             ELSE IF w.server.db = "nil"
                  THEN After(Append(guarded, Call("SwitchDatabase", dbPath.v)),
                             Result("panic", checked, ""))
             ELSE LET switch == SwitchDatabase(checked, dbPath.v, openOk)
                  IN  IF switch.err # "ok"
                      THEN [res |-> "ErrSwitch", w |-> switch.w, out |-> "",
                            peak |-> switch.peak,
                            acc |-> Append(guarded, Call("SwitchDatabase", dbPath.v))]
                      ELSE [res |-> "ok",
                            w |-> [switch.w EXCEPT !.server.dbPath = dbPath.v],
                            out |-> dbPath.v, peak |-> switch.peak,
                            acc |-> Append(guarded, Call("SwitchDatabase", dbPath.v))]

handleSwitchDatabase(w, dbPath, openOk) ==
    IF ~IsString(dbPath) THEN Result("ErrArg", w, "")
    ELSE IF validateFilePath(w.server.allowedDirs, dbPath.v) # "ok"
         THEN After(<<Call("validateFilePath", dbPath.v)>>,
                    Result("ErrFileNotAllowed", w, ""))
    ELSE LET check == DatabaseExists(w.fs, dbPath.v)
             checked == [w EXCEPT !.fs = check.fs]
             guarded == <<Call("validateFilePath", dbPath.v),
                          Call("DatabaseExists", dbPath.v)>>
         IN  IF ~check.exists THEN After(guarded, Result("ErrNotFound", checked, ""))
             ELSE IF w.server.db = "nil"
                  THEN After(Append(guarded, Call("SwitchDatabase", dbPath.v)),
                             Result("panic", checked, ""))
             ELSE LET switch == SwitchDatabase(checked, dbPath.v, openOk)
                  IN  IF switch.err # "ok"
                      THEN [res |-> "ErrSwitch", w |-> switch.w, out |-> "",
                            peak |-> switch.peak,
                            acc |-> Append(guarded, Call("SwitchDatabase", dbPath.v))]
                      ELSE [res |-> "ok",
                            w |-> [switch.w EXCEPT !.server.dbPath = dbPath.v],
                            out |-> dbPath.v, peak |-> switch.peak,
                            acc |-> Append(guarded, Call("SwitchDatabase", dbPath.v))]

handleCurrentDatabase(w) ==
    IF w.server.db = "nil"
    THEN After(<<Call("GetCurrentDatabasePath", "")>>, Result("panic", w, ""))
    ELSE After(<<Call("GetCurrentDatabasePath", "")>>,
               Result("ok", w, GetCurrentDatabasePath(w)))

handleListDatabaseFiles(w, directory) ==
    IF ~IsString(directory) \/ directory.v = "" THEN Result("ErrArg", w, <<>>)
    ELSE IF IsDot(directory.v) /\ Len(w.server.allowedDirs) = 0
         THEN Result("ErrNoAllowedDirs", w, <<>>)
    ELSE LET dir == IF IsDot(directory.v) THEN w.server.allowedDirs[1] ELSE directory.v
             valid == validateDirectory(w.server.allowedDirs, dir)
         IN  IF valid # "ok"
             THEN After(<<Call("validateDirectory", dir)>>, Result(valid, w, <<>>))
             ELSE After(<<Call("validateDirectory", dir), Call("ListDatabaseFiles", dir)>>,
                        Result("ok", w, ListDatabaseFiles(w.fs, dir)))

\* handleDeleteDatabase that takes any confirm other than false or absent
\* as a confirmation.
handleDeleteDatabase_LooseConfirm(w, dbPath, confirm) ==
    IF ~IsString(dbPath) THEN Result("ErrArg", w, "")
    ELSE IF confirm = Absent \/ confirm = Bool(FALSE) THEN Result("ErrConfirm", w, "")
    ELSE IF validateFilePath(w.server.allowedDirs, dbPath.v) # "ok"
         THEN After(<<Call("validateFilePath", dbPath.v)>>,
                    Result("ErrFileNotAllowed", w, ""))
    ELSE IF dbPath.v = w.server.dbPath
         THEN After(<<Call("validateFilePath", dbPath.v)>>, Result("ErrConflict", w, ""))
    ELSE LET removal == DeleteDatabase(w.fs, dbPath.v)
         IN  After(<<Call("validateFilePath", dbPath.v), Call("DeleteDatabase", dbPath.v)>>,
                   IF removal.err # "ok" THEN Result(removal.err, w, "")
                   ELSE Result("ok", [w EXCEPT !.fs = removal.fs], dbPath.v))

handleDeleteDatabase(w, dbPath, confirm) ==
    IF ~IsString(dbPath) THEN Result("ErrArg", w, "")
    ELSE IF ~IsBool(confirm) \/ ~confirm.v THEN Result("ErrConfirm", w, "")
    ELSE IF validateFilePath(w.server.allowedDirs, dbPath.v) # "ok"
         THEN After(<<Call("validateFilePath", dbPath.v)>>,
                    Result("ErrFileNotAllowed", w, ""))
    ELSE IF dbPath.v = w.server.dbPath
         THEN After(<<Call("validateFilePath", dbPath.v)>>, Result("ErrConflict", w, ""))
    ELSE LET removal == DeleteDatabase(w.fs, dbPath.v)
         IN  After(<<Call("validateFilePath", dbPath.v), Call("DeleteDatabase", dbPath.v)>>,
                   IF removal.err # "ok" THEN Result(removal.err, w, "")
                   ELSE Result("ok", [w EXCEPT !.fs = removal.fs], dbPath.v))

\* SQLiteServer.Close.
CloseServer(w) == IF w.server.db # "nil" THEN CloseDB(w) ELSE w

(***************************************************************************)
(* Startup: main, NewSQLiteServerWithoutDB, SetAllowedDirs and             *)
(* NewSQLiteServerWithDirs.                                                *)
(***************************************************************************)
isDBFile(path) ==
    \/ HasSuffix(ToLower(path), ".db")
    \/ HasSuffix(ToLower(path), ".sqlite")
    \/ HasSuffix(ToLower(path), ".sqlite3")
    \/ HasSuffix(ToLower(path), ".db3")

\* The scan of main that keeps the last database it finds.
RECURSIVE FirstDatabase_Last(_, _, _)
FirstDatabase_Last(fsys, args, i) ==
    IF i > Len(args) THEN ""
    ELSE LET path == args[i]
             later == FirstDatabase_Last(fsys, args, i + 1)
         IN  IF later # "" THEN later
             ELSE IF ~Exists(fsys, path) THEN ""
             ELSE IF IsDir(path)
                  THEN LET dbFiles == ListDatabaseFiles(fsys, path)
                       IN  IF Len(dbFiles) > 0 THEN dbFiles[1] ELSE ""
             ELSE IF isDBFile(path) THEN path
             ELSE ""

RECURSIVE FirstDatabase(_, _, _)
FirstDatabase(fsys, args, i) ==
    IF i > Len(args) THEN ""
    ELSE LET path == args[i]
         IN  IF ~Exists(fsys, path) THEN FirstDatabase(fsys, args, i + 1)
             ELSE IF IsDir(path)
                  THEN LET dbFiles == ListDatabaseFiles(fsys, path)
                       IN  IF Len(dbFiles) > 0 THEN dbFiles[1]
                           ELSE FirstDatabase(fsys, args, i + 1)
             ELSE IF isDBFile(path) THEN path
             ELSE FirstDatabase(fsys, args, i + 1)

NewSQLiteServerWithoutDB(fsys) ==
    [server |-> [db |-> "nil", dbPath |-> "", allowedDirs |-> <<>>],
     sqlite |-> NoHandle, conns |-> {}, fs |-> fsys]

SetAllowedDirs(w, dirs) == [w EXCEPT !.server.allowedDirs = dirs]

NewSQLiteServerWithDirs(fsys, dbPath, allowedDirs, openOk) ==
    LET db == NewSQLiteDB(NewSQLiteServerWithoutDB(fsys), dbPath, openOk)
    IN  IF db.err # "ok" THEN [err |-> db.err, w |-> db.w]
        ELSE [err |-> "ok",
              w |-> [db.w EXCEPT !.server = [db |-> "handle", dbPath |-> dbPath,
                                             allowedDirs |-> allowedDirs]]]

\* The state main leaves the process in: [w, proc].
main(fsys, args, openOk) ==
    IF Len(args) = 0
    THEN [w |-> NewSQLiteServerWithoutDB(fsys), proc |-> "running"]
    ELSE LET dbPath == FirstDatabase(fsys, args, 1)
         IN  IF dbPath = ""
             THEN [w |-> SetAllowedDirs(NewSQLiteServerWithoutDB(fsys), args),
                   proc |-> "running"]
             ELSE LET srv == NewSQLiteServerWithDirs(fsys, dbPath, args, openOk)
                  IN  [w |-> srv.w,
                       proc |-> IF srv.err = "ok" THEN "running" ELSE "exited"]

(***************************************************************************)
(* The server specification: the process after main, then tool calls one   *)
(* at a time (the stdio transport handles one request after another).      *)
(***************************************************************************)
StartFiles == {"/d/a.db", "/d/b.db", "/dd/a.db"}

StartContents == {Junk, Database({"t"}, {})}

StartDisks ==
    UNION {[present -> StartContents] : present \in SUBSET StartFiles}

StartArgs == {<<>>, <<"/d">>, <<"/d/">>, <<"/d/.">>, <<"/d/a.db">>}

PathArgs ==
    {Absent, Str("/d/a.db"), Str("/d/b.db"), Str("/dd/a.db"), Str("/d/../dd/a.db")}

DirArgs == {Absent, Str(""), Str("."), Str("/d"), Str("/d/"), Str("/dd")}

ConfirmArgs == {Absent, Bool(TRUE), Bool(FALSE), Str("true")}

QueryArgs == {Absent, Str(" select 1"), Str("VACUUM")}

World == [server |-> server, sqlite |-> sqlite, conns |-> conns, fs |-> fs]

Init ==
    \E disk \in StartDisks, args \in StartArgs, openOk \in BOOLEAN :
        \E start \in {main(disk, args, openOk)} :
            /\ server = start.w.server
            /\ sqlite = start.w.sqlite
            /\ conns = start.w.conns
            /\ fs = start.w.fs
            /\ proc = start.proc
            /\ last = [op |-> "main", args |-> args, res |-> start.proc,
                       out |-> "", peak |-> Cardinality(start.w.conns),
                       before |-> 0, acc |-> <<>>]

\* A call returns: the state is the one the handler left, and a panic ends
\* the process.
Return(op, args, handled) ==
    \E result \in {handled} :
        /\ server' = result.w.server
        /\ sqlite' = result.w.sqlite
        /\ conns' = result.w.conns
        /\ fs' = result.w.fs
        /\ proc' = IF result.res = "panic" THEN "crashed" ELSE proc
        /\ last' = [op |-> op, args |-> args, res |-> result.res,
                    out |-> result.out, peak |-> result.peak,
                    before |-> Cardinality(conns), acc |-> result.acc]

QueryTool ==
    /\ proc = "running"
    /\ \E query \in QueryArgs :
          Return("query", [query |-> query], handleQuery(World, query))

DatabaseExistsTool ==
    /\ proc = "running"
    /\ \E dbPath \in PathArgs :
          Return("database_exists", [db_path |-> dbPath],
                 handleDatabaseExists(World, dbPath))

SwitchDatabaseTool ==
    /\ proc = "running"
    /\ \E dbPath \in PathArgs, openOk \in BOOLEAN :
          Return("switch_database", [db_path |-> dbPath],
                 handleSwitchDatabase(World, dbPath, openOk))

CurrentDatabaseTool ==
    /\ proc = "running"
    /\ Return("current_database", [none |-> Absent], handleCurrentDatabase(World))

ListDatabaseFilesTool ==
    /\ proc = "running"
    /\ \E directory \in DirArgs :
          Return("list_database_files", [directory |-> directory],
                 handleListDatabaseFiles(World, directory))

DeleteDatabaseTool ==
    /\ proc = "running"
    /\ \E dbPath \in PathArgs, confirm \in ConfirmArgs :
          Return("delete_database", [db_path |-> dbPath, confirm |-> confirm],
                 handleDeleteDatabase(World, dbPath, confirm))

Close ==
    /\ proc = "running"
    /\ conns' = CloseServer(World).conns
    /\ proc' = "closed"
    /\ last' = [op |-> "Close", args |-> [none |-> Absent], res |-> "ok",
                out |-> "", peak |-> Cardinality(conns),
                before |-> Cardinality(conns), acc |-> <<>>]
    /\ UNCHANGED <<server, sqlite, fs>>

Next ==
    \/ QueryTool
    \/ DatabaseExistsTool
    \/ SwitchDatabaseTool
    \/ CurrentDatabaseTool
    \/ ListDatabaseFilesTool
    \/ DeleteDatabaseTool
    \/ Close

Spec == Init /\ [][Next]_vars

(***************************************************************************)
(* Claims about the server.                                                *)
(***************************************************************************)
RequiresConnection ==
    {"query", "execute", "create_table", "list_tables", "describe_table",
     "transaction", "drop_table", "create_index", "list_indexes", "drop_index",
     "vacuum", "analyze_query", "database_stats", "switch_database",
     "delete_database"}

ArgumentErrors == {"ErrArg", "ErrNotQuery", "ErrSelect", "ErrConfirm"}

\* C5: in the Unconnected state every operation that requires a connection,
\* called with well-formed arguments, returns the 'no database selected' error
\* as an ordinary failure; none faults on the absent handle.
C5_NoDatabaseSelected ==
    (/\ server.db = "nil"
     /\ last.op \in RequiresConnection
     /\ last.res \notin ArgumentErrors)
        => last.res = "ErrNoDatabaseSelected"

\* C6: in the Unconnected state list_database_files and database_exists
\* complete normally for a path that passes the path guard, current_database
\* returns a result that reports no database, and none of them dereferences
\* the absent handle.
C6_UnconnectedTools ==
    server.db = "nil" =>
        /\ last.op \in {"list_database_files", "database_exists", "create_database",
                        "current_database"}
              => last.res # "panic"
        /\ last.op = "current_database" => (last.res = "ok" /\ last.out = "")
        /\ (/\ last.op = "database_exists"
            /\ IsString(last.args.db_path)
            /\ validateFilePath(server.allowedDirs, last.args.db_path.v) = "ok")
              => last.res = "ok"
        /\ (/\ last.op = "list_database_files"
            /\ IsString(last.args.directory)
            /\ last.args.directory.v # ""
            /\ validateDirectory(server.allowedDirs, last.args.directory.v) = "ok")
              => last.res = "ok"

\* C7: the handle has 0 or 1 connections opened and not yet closed, in every
\* state and at every point inside a call: switch_database closes the previous
\* connection before it opens the new one.
C7_AtMostOneConnection ==
    /\ Cardinality(conns) <= 1
    /\ last.peak <= 1

\* C7 witness: a switch_database that began with a connection open succeeded
\* and left one connection open.
C7_Witness ==
    /\ last.op = "switch_database"
    /\ last.res = "ok"
    /\ last.before = 1
    /\ Cardinality(conns) = 1

\* C8: after a switch_database that failed while opening the new path, the
\* handle is unconnected: the current database path is empty, not the
\* previous path.
C8_FailedSwitchUnconnected ==
    (last.op = "switch_database" /\ last.res = "ErrSwitch") =>
        /\ GetCurrentDatabasePath(World) = ""
        /\ server.dbPath = ""

\* C9: delete_database with confirm=true on the path of the active database
\* returns the conflict error and removes no file.
C9_Original ==
    [][(/\ last'.op = "delete_database"
        /\ last'.args.confirm = Bool(TRUE)
        /\ server.db = "handle"
        /\ last'.args.db_path = Str(sqlite.dbPath))
          => (last'.res = "ErrConflict" /\ fs' = fs)]_vars

\* C9 (amended): delete_database with confirm=true on the path recorded for
\* the active database is refused and removes no file: with the conflict
\* error when the path passes validateFilePath, with the file-not-allowed
\* error when it does not.
C9_ActiveDatabaseKept ==
    [][(/\ last'.op = "delete_database"
        /\ last'.args.confirm = Bool(TRUE)
        /\ server.db = "handle"
        /\ last'.args.db_path = Str(sqlite.dbPath))
          => /\ fs' = fs
             /\ last'.res = IF validateFilePath(server.allowedDirs, sqlite.dbPath) = "ok"
                            THEN "ErrConflict" ELSE "ErrFileNotAllowed"]_vars

\* C9 witness: /d/b.db is the active database, another database is on disk,
\* and deleting /d/b.db was refused with the conflict error.
C9_Witness ==
    /\ last.op = "delete_database"
    /\ last.args = [db_path |-> Str("/d/b.db"), confirm |-> Bool(TRUE)]
    /\ last.res = "ErrConflict"
    /\ sqlite.dbPath = "/d/b.db"
    /\ IsOpen(World)
    /\ "/d/a.db" \in DOMAIN fs /\ fs["/d/a.db"].kind = "db"
    /\ "/d/b.db" \in DOMAIN fs

\* C10: delete_database removes a file only when confirm is present, is a
\* boolean and is true; otherwise the call is rejected and no file is removed,
\* whatever db_path is.
C10_ConfirmRequired ==
    [][(last'.op = "delete_database" /\ last'.args.confirm # Bool(TRUE))
          => (last'.res \in {"ErrArg", "ErrConfirm"} /\ fs' = fs)]_vars

\* C10 witness: a delete_database whose confirm is the string "true", on an
\* allowed path that holds a file and is not the active database, was
\* rejected.
C10_Witness ==
    /\ last.op = "delete_database"
    /\ last.args = [db_path |-> Str("/d/b.db"), confirm |-> Str("true")]
    /\ last.res = "ErrConfirm"
    /\ "/d/b.db" \in DOMAIN fs
    /\ server.dbPath = "/d/a.db"
    /\ validateFilePath(server.allowedDirs, "/d/b.db") = "ok"

(***************************************************************************)
(* Transactions.  The engine state e of a connection inside                *)
(* SQLiteDB.Transaction: db is the database as the connection sees it,     *)
(* saved the database when the open transaction began, inTx whether a      *)
(* transaction is open on the connection.                                  *)
(***************************************************************************)
Arr(seq) == [t |-> "array", v |-> seq]
IsArray(a) == a.t = "array"

\* sql.DB.Begin on the connection.
Begin(db) == [db |-> db, saved |-> db, inTx |-> TRUE]

\* The engine runs the parsed statement s on the connection.  Outside a
\* transaction a change is committed at once (autocommit).
ExecParsed(e, s) ==
    LET fail == [err |-> "ErrEngine", e |-> e, affected |-> 0]
    IN  IF e.db.kind # "db" THEN fail
        ELSE IF s.op = "insert"
             THEN IF "t" \notin e.db.tables \/ s.row \in e.db.rows THEN fail
                  ELSE [err |-> "ok", affected |-> 1,
                        e |-> [e EXCEPT !.db.rows = e.db.rows \cup {s.row}]]
        ELSE IF s.op = "delete"
             THEN IF "t" \notin e.db.tables THEN fail
                  ELSE [err |-> "ok", affected |-> Cardinality(e.db.rows),
                        e |-> [e EXCEPT !.db.rows = {}]]
        ELSE IF s.op = "commit"
             THEN IF ~e.inTx THEN fail
                  ELSE [err |-> "ok", affected |-> 0, e |-> [e EXCEPT !.inTx = FALSE]]
        ELSE IF s.op = "select"
             THEN IF "t" \notin e.db.tables THEN fail
                  ELSE [err |-> "ok", affected |-> 0, e |-> e]
        ELSE IF s.op = "const" THEN [err |-> "ok", affected |-> 0, e |-> e]
        ELSE IF s.op = "vacuum"
             THEN IF e.inTx THEN fail ELSE [err |-> "ok", affected |-> 0, e |-> e]
        ELSE fail

\* tx.Exec(stmt).
Exec(e, stmt) == ExecParsed(e, Parse(stmt))

\* tx.Rollback: the engine's ROLLBACK, an error (ignored by the caller) when
\* no transaction is open.
Rollback(e) == IF e.inTx THEN [e EXCEPT !.db = e.saved, !.inTx = FALSE] ELSE e

\* tx.Commit: the engine's COMMIT, which fails when no transaction is open.
Commit(e) ==
    IF e.inTx THEN [err |-> "ok", e |-> [e EXCEPT !.inTx = FALSE]]
    ELSE [err |-> "ErrCommit", e |-> e]

\* strings.Split(stmt, " ")[0]: the text before the first space character of
\* stmt, all of stmt when it holds none.
RECURSIVE FirstField(_)
FirstField(stmt) ==
    IF Len(stmt) = 0 \/ SubSeq(stmt, 1, 1) = " " THEN ""
    ELSE SubSeq(stmt, 1, 1) \o FirstField(SubSeq(stmt, 2, Len(stmt)))

\* The callback of handleTransaction: the statements in order, stopping at
\* the first that fails.  Executed takes the result of tx.Exec of
\* statement i.
RECURSIVE ExecFrom(_, _, _, _, _)
Executed(e, statements, i, executedStatements, totalAffected, result) ==
    IF result.err # "ok"
    THEN [err |-> "ErrStatement", e |-> e, index |-> i,
          keyword |-> FirstField(statements[i]),
          executedStatements |-> executedStatements,
          totalAffected |-> totalAffected]
    ELSE ExecFrom(result.e, statements, i + 1, executedStatements + 1,
                  totalAffected + result.affected)

ExecFrom(e, statements, i, executedStatements, totalAffected) ==
    IF i > Len(statements)
    THEN [err |-> "ok", e |-> e, index |-> 0, keyword |-> "",
          executedStatements |-> executedStatements, totalAffected |-> totalAffected]
    ELSE Executed(e, statements, i, executedStatements, totalAffected,
                  Exec(e, statements[i]))

\* The disk after the connection's database became db.
Store(w, db) ==
    IF w.sqlite.db.file \in DOMAIN w.fs
    THEN [w EXCEPT !.fs = WriteFile(w.fs, w.sqlite.db.file, db)]
    ELSE w

\* The end of SQLiteDB.Transaction after the callback returned run: Rollback
\* on an error, Commit otherwise.
Ended(w, run, err, e) ==
    [err |-> err, w |-> Store(w, e.db), began |-> TRUE, index |-> run.index,
     keyword |-> run.keyword,
     executedStatements |-> run.executedStatements,
     totalAffected |-> run.totalAffected]

EndTransaction(w, run) ==
    IF run.err # "ok"
    THEN Ended(w, run, run.err, Rollback(run.e))
    ELSE Ended(w, run, Commit(run.e).err, Rollback(Commit(run.e).e))

\* SQLiteDB.Transaction with the callback of handleTransaction.
Transaction(w, statements) ==
    IF ~IsOpen(w)
    THEN [err |-> "ErrClosed", w |-> w, began |-> FALSE, index |-> 0,
          keyword |-> "", executedStatements |-> 0, totalAffected |-> 0]
    ELSE EndTransaction(w, ExecFrom(Begin(Content(w)), statements, 1, 0, 0))

\* The statement's text begins with SELECT, as handleTransaction tests it.
IsSelect(s) == HasPrefix(TrimSpace(ToUpper(s)), "SELECT")

\* The first statement handleTransaction's validation loop stops at, 0 if none.
RECURSIVE FirstRejected(_, _)
FirstRejected(statementsArray, i) ==
    IF i > Len(statementsArray) THEN 0
    ELSE IF ~IsString(statementsArray[i]) \/ IsSelect(statementsArray[i].v) THEN i
    ELSE FirstRejected(statementsArray, i + 1)

NotBegun ==
    [began |-> FALSE, index |-> 0, keyword |-> "", executed |-> 0, affected |-> 0]

\* What handleTransaction returns after SQLiteDB.Transaction returned tx.
Transacted(tx) ==
    After(<<Call("Transaction", "")>>,
          Result(tx.err, tx.w,
                 [began |-> tx.began, index |-> tx.index, keyword |-> tx.keyword,
                  executed |-> tx.executedStatements, affected |-> tx.totalAffected]))

\* handleTransaction after its validation loop stopped at statement k (0: at
\* none).
Validated(w, statementsArray, k) ==
    IF k # 0
    THEN Result(IF IsString(statementsArray[k]) THEN "ErrSelect" ELSE "ErrArg",
                w, [NotBegun EXCEPT !.index = k])
    ELSE IF w.server.db = "nil"
         THEN After(<<Call("Transaction", "")>>, Result("panic", w, NotBegun))
    ELSE Transacted(Transaction(w, [i \in 1..Len(statementsArray) |->
                                       IF IsString(statementsArray[i])
                                       THEN statementsArray[i].v ELSE ""]))

\* handleTransaction that validates the first statement only.
handleTransaction_FirstOnly(w, statementsRaw) ==
    IF statementsRaw = Absent \/ ~IsArray(statementsRaw) THEN Result("ErrArg", w, NotBegun)
    ELSE IF Len(statementsRaw.v) = 0 THEN Result("ErrArg", w, NotBegun)
    ELSE Validated(w, statementsRaw.v, FirstRejected(SubSeq(statementsRaw.v, 1, 1), 1))

handleTransaction(w, statementsRaw) ==
    IF statementsRaw = Absent \/ ~IsArray(statementsRaw) THEN Result("ErrArg", w, NotBegun)
    ELSE IF Len(statementsRaw.v) = 0 THEN Result("ErrArg", w, NotBegun)
    ELSE Validated(w, statementsRaw.v, FirstRejected(statementsRaw.v, 1))

(***************************************************************************)
(* The transaction specification: a server started on the directory /d,    *)
(* with or without a database in it, then one transaction call and query   *)
(* calls.  A transaction leaves nothing behind but the rows of the          *)
(* database, and every set of rows is an initial state, so one call per    *)
(* behaviour runs the handler in every state a sequence of calls reaches.  *)
(***************************************************************************)
MaxStatements == 3

StatementArgs ==
    {Str(InsertText(n)) : n \in Rows}
        \cup {Str("COMMIT"), Str(" select 1"), Str("X"), Num(1),
              Str(" " \o InsertText(1))}

RECURSIVE ListsUpTo(_)
ListsUpTo(n) ==
    IF n = 0 THEN {<<>>}
    ELSE LET shorter == ListsUpTo(n - 1)
         IN  shorter \cup {Append(l, a) : l \in shorter, a \in StatementArgs}

StatementsArgs == {Absent, Str("COMMIT")} \cup {Arr(l) : l \in ListsUpTo(MaxStatements)}

TxDisks ==
    {NoFiles} \cup {[f \in {"/d/a.db"} |-> Database({"t"}, rows)] : rows \in SUBSET Rows}

TxInit ==
    \E disk \in TxDisks :
        \E start \in {main(disk, <<"/d">>, TRUE)} :
            /\ server = start.w.server
            /\ sqlite = start.w.sqlite
            /\ conns = start.w.conns
            /\ fs = start.w.fs
            /\ proc = start.proc
            /\ last = [op |-> "main", args |-> <<"/d">>, res |-> start.proc,
                       out |-> "", peak |-> Cardinality(start.w.conns),
                       before |-> 0, acc |-> <<>>]

TransactionTool ==
    /\ proc = "running"
    /\ last.op = "main"
    /\ \E statements \in StatementsArgs :
           Return("transaction", [statements |-> statements],
                  handleTransaction(World, statements))

TxQueryTool ==
    /\ proc = "running"
    /\ Return("query", [query |-> Str("SELECT * FROM T")],
              handleQuery(World, Str("SELECT * FROM T")))

TxNext == TransactionTool \/ TxQueryTool

SpecTx == TxInit /\ [][TxNext]_vars

\* The statement begins with SELECT once surrounding whitespace is trimmed and
\* case is ignored.
StartsWithSelect(s) == HasPrefix(ToUpper(TrimSpace(s)), "SELECT")

\* The list is a non-empty list of statements none of which is a SELECT.
NonSelectStatements(a) ==
    /\ IsArray(a)
    /\ Len(a.v) > 0
    /\ \A i \in 1..Len(a.v) : IsString(a.v[i]) /\ ~StartsWithSelect(a.v[i].v)

\* C3: on a connected server, for every non-empty list S of non-SELECT
\* statements given to transaction, either the call succeeds and reports |S|
\* executed statements, or it returns an error and the database is the same
\* as before the call.
C3_AllOrNothing ==
    [][(/\ last'.op = "transaction"
        /\ server.db = "handle"
        /\ NonSelectStatements(last'.args.statements))
          => \/ last'.res = "ok" /\ last'.out.executed = Len(last'.args.statements.v)
             \/ last'.res \notin {"ok", "panic"} /\ fs' = fs]_vars

\* C4: when the statements argument is an empty list, or some statement at
\* any position is not a string or starts with SELECT, transaction fails
\* before a transaction is begun: no statement is executed and the database
\* is unchanged.
C4_RejectedBeforeBegin ==
    [][(/\ last'.op = "transaction"
        /\ IsArray(last'.args.statements)
        /\ ~NonSelectStatements(last'.args.statements))
          => /\ last'.res \in {"ErrArg", "ErrSelect"}
             /\ ~last'.out.began
             /\ last'.out.executed = 0
             /\ fs' = fs]_vars

\* C4 witness: a list whose first statement is an INSERT the database would
\* accept and whose second is a SELECT was rejected at the second.
C4_Witness ==
    /\ last.op = "transaction"
    /\ last.args.statements = Arr(<<Str(InsertText(1)), Str(" select 1")>>)
    /\ last.res = "ErrSelect"
    /\ last.out.index = 2
    /\ IsOpen(World)
    /\ Content(World) = Database({"t"}, {})


(***************************************************************************)
(* create_database.  A database that CreateNewDatabase initialised has the *)
(* table _mcp_init, and init counts the rows of that table.                *)
(***************************************************************************)
\* A natural number as fmt's %d prints it.
RECURSIVE Itoa(_)
Itoa(n) == IF n < 10 THEN Digit(n) ELSE Itoa(n \div 10) \o Digit(n % 10)

\* strings.ReplaceAll for a one-character old.
RECURSIVE ReplaceAll(_, _, _)
ReplaceAll(s, old, new) ==
    IF Len(s) = 0 THEN ""
    ELSE (IF SubSeq(s, 1, 1) = old THEN new ELSE SubSeq(s, 1, 1))
         \o ReplaceAll(SubSeq(s, 2, Len(s)), old, new)

\* The runes generateFilenameFromPurpose keeps: a-z, 0-9 and "_".
IsFilenameRune(r) ==
    IndexIn(r, LowerCase, 1) # 0 \/ IndexIn(r, "0123456789", 1) # 0 \/ r = "_"

RECURSIVE KeepFilenameRunes(_)
KeepFilenameRunes(s) ==
    IF Len(s) = 0 THEN ""
    ELSE (IF IsFilenameRune(SubSeq(s, 1, 1)) THEN SubSeq(s, 1, 1) ELSE "")
         \o KeepFilenameRunes(SubSeq(s, 2, Len(s)))

\* generateFilenameFromPurpose without the limit of 20 characters.
Stamped_Unlimited(filename, now) ==
    LET named == IF filename = "" THEN "database" ELSE filename
    IN  named \o "_" \o Itoa(now % 10000) \o ".db"

\* The end of generateFilenameFromPurpose, from the kept runes on.
Stamped(filename, now) ==
    LET named == IF filename = "" THEN "database" ELSE filename
        limited == IF Len(named) > 20 THEN SubSeq(named, 1, 20) ELSE named
    IN  limited \o "_" \o Itoa(now % 10000) \o ".db"

\* now is what time.Now().Unix() returns.
generateFilenameFromPurpose(purpose, now) ==
    Stamped(KeepFilenameRunes(ReplaceAll(ReplaceAll(ToLower(purpose), " ", "_"),
                                         "-", "_")),
            now)

InitRows(content) == IF "init" \in DOMAIN content THEN content.init ELSE 0

\* The database after CREATE TABLE IF NOT EXISTS _mcp_init and the INSERT of
\* the version row.
Initialised(content) ==
    [kind |-> "db", tables |-> content.tables \cup {"_mcp_init"},
     rows |-> content.rows, init |-> InitRows(content) + 1]

CreateNewFile(fsys, file) ==
    IF ~CanOpenFile(fsys, file) THEN [err |-> "ErrConnect", fs |-> fsys]
    ELSE IF ~Queryable(AfterOpenFile(fsys, file), file)
         THEN [err |-> "ErrInitTable", fs |-> fsys]
    ELSE [err |-> "ok",
          fs |-> WriteFile(fsys, file, Initialised(AfterOpenFile(fsys, file)[file]))]

CreateNewDatabase(fsys, dbPath) == CreateNewFile(fsys, Clean(dbPath))

\* The file name handleCreateDatabase starts from.
Filename(suggestedName, purpose, now) ==
    IF IsString(suggestedName) /\ suggestedName.v # "" THEN suggestedName.v \o ".db"
    ELSE IF IsString(purpose) /\ purpose.v # ""
         THEN generateFilenameFromPurpose(purpose.v, now)
    ELSE "database_" \o Itoa(now) \o ".db"

Suffixed(base, i) == base \o "_" \o Itoa(i) \o ".db"

\* The suffix the loop of handleCreateDatabase stops at.
RECURSIVE FirstFree(_, _, _, _)
FirstFree(fsys, directory, base, i) ==
    IF ~Exists(fsys, Join(directory, Suffixed(base, i))) THEN i
    ELSE FirstFree(fsys, directory, base, i + 1)

\* handleCreateDatabase that creates at the first path whether or not a file
\* is there.
Unique_Unprobed(fsys, directory, filename) ==
    [dbPath |-> Join(directory, filename), filename |-> filename, probes |-> 0]

\* The path and file name handleCreateDatabase settles on, and the number of
\* suffixes it tried.
Unique(fsys, directory, filename) ==
    IF ~Exists(fsys, Join(directory, filename))
    THEN [dbPath |-> Join(directory, filename), filename |-> filename, probes |-> 0]
    ELSE LET base == TrimSuffix(filename, ".db")
             i == FirstFree(fsys, directory, base, 1)
         IN  [dbPath |-> Join(directory, Suffixed(base, i)),
              filename |-> Suffixed(base, i), probes |-> i]

\* handleCreateDatabase from the choice of the path on.
Created(w, directory, filename, chosen) ==
    LET creation == CreateNewDatabase(w.fs, chosen.dbPath)
        acc == <<Call("validateDirectory", directory),
                 Call("Stat", Join(directory, filename))>>
               \o [i \in 1..chosen.probes |->
                     Call("Stat", Join(directory,
                                       Suffixed(TrimSuffix(filename, ".db"), i)))]
               \o <<Call("CreateNewDatabase", chosen.dbPath)>>
    IN  After(acc,
              IF creation.err # "ok" THEN Result("ErrCreate", w, "")
              ELSE Result("ok", [w EXCEPT !.fs = creation.fs],
                          [path |-> chosen.dbPath, filename |-> chosen.filename]))

handleCreateDatabase(w, directory, suggestedName, purpose, now) ==
    IF ~IsString(directory) \/ directory.v = "" THEN Result("ErrArg", w, "")
    ELSE IF IsDot(directory.v) /\ Len(w.server.allowedDirs) = 0
         THEN Result("ErrNoAllowedDirs", w, "")
    ELSE LET dir == IF IsDot(directory.v) THEN w.server.allowedDirs[1] ELSE directory.v
             valid == validateDirectory(w.server.allowedDirs, dir)
             filename == Filename(suggestedName, purpose, now)
         IN  IF valid # "ok"
             THEN After(<<Call("validateDirectory", dir)>>, Result(valid, w, ""))
             ELSE Created(w, dir, filename, Unique(w.fs, dir, filename))

(***************************************************************************)
(* The specification of create_database: the process after main, then      *)
(* calls of create_database while the disk holds fewer than MaxFiles       *)
(* files.                                                                  *)
(***************************************************************************)
MaxFiles == 3

CreateDisks ==
    {NoFiles,
     [f \in {"/d/a.db"} |-> Database({"t"}, {})],
     [f \in {"/d/a.db"} |-> Junk],
     [f \in {"/d/a.db", "/d/a_1.db"} |-> Database({"t"}, {})]}

CreateStartArgs == {<<>>, <<"/d">>, <<"/x", "/d/">>}

DirectoryArgs == {Absent, Str("."), Str("/d"), Str("/dd")}

NameArgs == {Absent, Str("a"), Str("../dd/a")}

PurposeArgs == {Absent, Str("A-b c!"), Str("abcdefghijklmnopqrstuvwxyz")}

\* Values of time.Now().Unix() on either side of a multiple of 10000.
Times == {9999, 10000}

\* The calls of create_database: a suggested name in every directory, in the
\* directory /d every purpose at every time without a usable name, and a
\* suggested name together with a purpose.
CreateCalls ==
    [directory : DirectoryArgs, suggested_name : NameArgs,
     purpose : {Absent}, now : {9999}]
    \cup [directory : {Str("/d")}, suggested_name : {Absent, Str("")},
          purpose : PurposeArgs, now : Times]
    \cup [directory : {Str("/d")}, suggested_name : {Str("a")},
          purpose : {Str("A-b c!")}, now : {9999}]

CreateInit ==
    \E disk \in CreateDisks, args \in CreateStartArgs :
        \E start \in {main(disk, args, TRUE)} :
            /\ server = start.w.server
            /\ sqlite = start.w.sqlite
            /\ conns = start.w.conns
            /\ fs = start.w.fs
            /\ proc = start.proc
            /\ last = [op |-> "main", args |-> args, res |-> start.proc, out |-> "",
                       peak |-> Cardinality(start.w.conns), before |-> 0,
                       acc |-> <<>>]

CreateDatabaseTool ==
    /\ proc = "running"
    /\ Cardinality(DOMAIN fs) < MaxFiles
    /\ \E call \in CreateCalls :
          Return("create_database", call,
                 handleCreateDatabase(World, call.directory, call.suggested_name,
                                      call.purpose, call.now))

CreateNext == CreateDatabaseTool

SpecCreate == CreateInit /\ [][CreateNext]_vars


C12_CreatedInsideDirectory ==
    (last.op = "create_database" /\ last.res = "ok") =>
        LET dir == IF IsDot(last.args.directory.v) THEN server.allowedDirs[1]
                   ELSE last.args.directory.v
        IN  /\ DirOf(Clean(last.out.path)) = Clean(dir)
            /\ WithinSomeRoot(server.allowedDirs, last.out.path)


(***************************************************************************)
(* The specification of one path-taking call: the process after main, then *)
(* one call of a tool that takes a path.                                   *)
(***************************************************************************)
PathSwitchDatabase == last.op = "main" /\ SwitchDatabaseTool

PathDatabaseExists == last.op = "main" /\ DatabaseExistsTool

PathDeleteDatabase == last.op = "main" /\ DeleteDatabaseTool

PathCreateDatabase == last.op = "main" /\ CreateDatabaseTool

PathListDatabaseFiles == last.op = "main" /\ ListDatabaseFilesTool

PathNext ==
    \/ PathSwitchDatabase
    \/ PathDatabaseExists
    \/ PathDeleteDatabase
    \/ PathCreateDatabase
    \/ PathListDatabaseFiles

SpecPath == Init /\ [][PathNext]_vars

PathTools ==
    {"switch_database", "database_exists", "delete_database", "create_database",
     "list_database_files"}

GuardCalls == {"validateFilePath", "validateDirectory"}

GuardErrors == {"ErrFileNotAllowed", "ErrDirNotAllowed", "ErrNoAllowedDirs"}

\* The path guard accepts what the call gave it.
GuardAccepts(dirs, event) ==
    IF event.call = "validateFilePath" THEN validateFilePath(dirs, event.arg) = "ok"
    ELSE validateDirectory(dirs, event.arg) = "ok"

\* C13: in switch_database, database_exists, delete_database,
\* create_database and list_database_files the path guard's check completes
\* before any filesystem or database access (every access in the call's trace
\* comes after a guard call that accepted), and on rejection the handler
\* returns the error having made no such access: the trace holds nothing but
\* the guard call and the disk, the connections and the server are as before.
C13_GuardBeforeAccess ==
    [][last'.op \in PathTools
         => /\ \A k \in 1..Len(last'.acc) :
                  last'.acc[k].call \notin GuardCalls
                      => /\ k > 1
                         /\ last'.acc[1].call \in GuardCalls
                         /\ GuardAccepts(server.allowedDirs, last'.acc[1])
            /\ last'.res \in GuardErrors
                  => /\ \A k \in 1..Len(last'.acc) : last'.acc[k].call \in GuardCalls
                     /\ fs' = fs
                     /\ conns' = conns
                     /\ sqlite' = sqlite
                     /\ server' = server
            /\ (Len(last'.acc) > 0 /\ ~GuardAccepts(server.allowedDirs, last'.acc[1]))
                  => last'.res \in GuardErrors]_vars

\* C13 witness: database_exists of /dd/a.db, absent from the disk, on a
\* server whose only root is /d/a.db was rejected by the guard, and no file
\* was created there.
C13_Witness ==
    /\ last.op = "database_exists"
    /\ last.args.db_path = Str("/dd/a.db")
    /\ server.allowedDirs = <<"/d/a.db">>
    /\ last.res = "ErrFileNotAllowed"
    /\ last.acc = <<Call("validateFilePath", "/dd/a.db")>>
    /\ "/dd/a.db" \notin DOMAIN fs


\* C14: database_exists on an allowed path reports 'exists and is valid' if
\* and only if, before the call, a file was present at that path and is a
\* valid SQLite database; for a path with no file it reports 'does not
\* exist', and switch_database to such a path fails with the not-found error.
C14_ExistsIffPresentAndValid ==
    [][/\ (last'.op = "database_exists" /\ last'.res = "ok")
            => /\ (last'.out = "exists and is valid")
                      <=> Queryable(fs, Clean(last'.args.db_path.v))
               /\ ~Exists(fs, last'.args.db_path.v) => last'.out = "does not exist"
       /\ (/\ last'.op = "switch_database"
           /\ IsString(last'.args.db_path)
           /\ validateFilePath(server.allowedDirs, last'.args.db_path.v) = "ok"
           /\ ~Exists(fs, last'.args.db_path.v))
            => last'.res = "ErrNotFound"]_vars


(***************************************************************************)
(* execute.                                                                *)
(***************************************************************************)
\* sql.DB.Exec outside a transaction, then the number ExecuteStatement
\* returns for result: the engine's last insert rowid, which for the one
\* integer primary-key column of t is the inserted value, or the rows
\* affected.
Counted(w, statement, parsed, result) ==
    IF result.err # "ok" THEN [err |-> "ErrExec", w |-> w, n |-> 0]
    ELSE LET upperStmt == ToUpper(TrimSpace(statement))
         IN  [err |-> "ok", w |-> Store(w, result.e.db),
              n |-> IF HasPrefix(upperStmt, "INSERT")
                    THEN (IF parsed.op = "insert" THEN parsed.row ELSE 0)
                    ELSE result.affected]

ExecuteParsed(w, statement, parsed) ==
    Counted(w, statement, parsed,
            ExecParsed([db |-> Content(w), saved |-> Content(w), inTx |-> FALSE],
                       parsed))

ExecuteStatement(w, statement) ==
    IF ~IsOpen(w) THEN [err |-> "ErrClosed", w |-> w, n |-> 0]
    ELSE ExecuteParsed(w, statement, Parse(statement))

\* handleExecute after ExecuteStatement returned run.
Reported(w, statement, label, run) ==
    After(<<Call("ExecuteStatement", statement)>>,
          IF run.err # "ok" THEN Result(run.err, w, "")
          ELSE Result("ok", run.w, [label |-> label, n |-> run.n]))

\* handleExecute that tests the statement as written for the INSERT label.
handleExecute_LabelAsWritten(w, statement) ==
    IF ~IsString(statement) THEN Result("ErrArg", w, "")
    ELSE LET trimmedStmt == TrimSpace(ToUpper(statement.v))
         IN  IF HasPrefix(trimmedStmt, "SELECT") THEN Result("ErrUseQuery", w, "")
             ELSE IF w.server.db = "nil"
                  THEN After(<<Call("ExecuteStatement", statement.v)>>,
                             Result("panic", w, ""))
             ELSE Reported(w, statement.v,
                           IF HasPrefix(statement.v, "INSERT")
                           THEN "Last insert ID" ELSE "Rows affected",
                           ExecuteStatement(w, statement.v))

\* handleExecute that tests the statement for SELECT without trimming it.
handleExecute_Untrimmed(w, statement) ==
    IF ~IsString(statement) THEN Result("ErrArg", w, "")
    ELSE LET trimmedStmt == ToUpper(statement.v)
         IN  IF HasPrefix(trimmedStmt, "SELECT") THEN Result("ErrUseQuery", w, "")
             ELSE IF w.server.db = "nil"
                  THEN After(<<Call("ExecuteStatement", statement.v)>>,
                             Result("panic", w, ""))
             ELSE Reported(w, statement.v,
                           IF HasPrefix(trimmedStmt, "INSERT")
                           THEN "Last insert ID" ELSE "Rows affected",
                           ExecuteStatement(w, statement.v))

handleExecute(w, statement) ==
    IF ~IsString(statement) THEN Result("ErrArg", w, "")
    ELSE LET trimmedStmt == TrimSpace(ToUpper(statement.v))
         IN  IF HasPrefix(trimmedStmt, "SELECT") THEN Result("ErrUseQuery", w, "")
             ELSE IF w.server.db = "nil"
                  THEN After(<<Call("ExecuteStatement", statement.v)>>,
                             Result("panic", w, ""))
             ELSE Reported(w, statement.v,
                           IF HasPrefix(trimmedStmt, "INSERT")
                           THEN "Last insert ID" ELSE "Rows affected",
                           ExecuteStatement(w, statement.v))

(***************************************************************************)
(* The specification of the statement tools: the process after main, with  *)
(* or without a database found, then calls of execute and query.           *)
(***************************************************************************)
StmtStartArgs == {<<>>, <<"/d">>}

ExecuteArgs ==
    {Absent, Num(1), Str(InsertText(1)), Str(" insert into t values(2)"),
     Str("delete from t"), Str("Delete From T "), Str(" select 1"),
     Str("SELECT * FROM T"), Str("VACUUM"), Str("X")}

StmtQueryArgs ==
    QueryArgs \cup {Str("SELECT * FROM T"), Str("delete from t"), Str(" pragma x")}

StmtInit ==
    \E disk \in TxDisks, args \in StmtStartArgs :
        \E start \in {main(disk, args, TRUE)} :
            /\ server = start.w.server
            /\ sqlite = start.w.sqlite
            /\ conns = start.w.conns
            /\ fs = start.w.fs
            /\ proc = start.proc
            /\ last = [op |-> "main", args |-> args, res |-> start.proc,
                       out |-> "", peak |-> Cardinality(start.w.conns),
                       before |-> 0, acc |-> <<>>]

ExecuteTool ==
    /\ proc = "running"
    /\ \E statement \in ExecuteArgs :
          Return("execute", [statement |-> statement],
                 handleExecute(World, statement))

StmtQueryTool ==
    /\ proc = "running"
    /\ \E query \in StmtQueryArgs :
          Return("query", [query |-> query], handleQuery(World, query))

StmtNext == ExecuteTool \/ StmtQueryTool

SpecStmt == StmtInit /\ [][StmtNext]_vars

StartsWith(s, keyword) == HasPrefix(ToUpper(TrimSpace(s)), keyword)

\* C15: for every statement accepted by execute, the returned number is the
\* last insert id exactly when the trimmed, case-insensitive statement
\* starts with INSERT, and the rows-affected count otherwise, and the handler
\* labels the number by the same test, so the label always matches the
\* number: an INSERT of row n answers n as 'Last insert ID', a DELETE
\* answers the number of rows it removed as 'Rows affected'.
C15_NumberMatchesLabel ==
    [][(last'.op = "execute" /\ last'.res = "ok")
         => LET statement == last'.args.statement.v
            IN  IF StartsWith(statement, "INSERT")
                THEN /\ last'.out.label = "Last insert ID"
                     /\ last'.out.n \in Rows
                     /\ Content([World EXCEPT !.fs = fs']).rows
                          = Content(World).rows \cup {last'.out.n}
                     /\ last'.out.n \notin Content(World).rows
                ELSE /\ last'.out.label = "Rows affected"
                     /\ last'.out.n
                          = Cardinality(Content(World).rows)
                              - Cardinality(Content([World EXCEPT !.fs = fs']).rows)]_vars

\* C15 witness: an INSERT written in lower case after a space, into a table
\* that held row 1, answered the id 2 under the insert label.
C15_Witness ==
    /\ last.op = "execute"
    /\ last.args.statement = Str(" insert into t values(2)")
    /\ last.res = "ok"
    /\ last.out = [label |-> "Last insert ID", n |-> 2]
    /\ Content(World).rows = {1, 2}


\* C16: query passes a statement to the database handle only if, trimmed and
\* case-insensitively, it begins with SELECT or PRAGMA, and rejects every
\* other statement before the handle is touched; execute rejects every
\* statement that begins with SELECT before the handle is touched.  A
\* rejected call makes no call on the handle and changes nothing, connected
\* or not.
C16_RejectedBeforeHandle ==
    [][/\ (last'.op = "query" /\ IsString(last'.args.query))
            => \/ StartsWith(last'.args.query.v, "SELECT")
               \/ StartsWith(last'.args.query.v, "PRAGMA")
               \/ /\ last'.res = "ErrNotQuery"
                  /\ last'.acc = <<>>
                  /\ UNCHANGED <<server, sqlite, conns, fs, proc>>
       /\ (/\ last'.op = "execute"
           /\ IsString(last'.args.statement)
           /\ StartsWith(last'.args.statement.v, "SELECT"))
            => /\ last'.res = "ErrUseQuery"
               /\ last'.acc = <<>>
               /\ UNCHANGED <<server, sqlite, conns, fs, proc>>]_vars

\* C16 witness: on a server with no database connected, execute of a SELECT
\* written in lower case after a space was rejected and the process is
\* running.
C16_Witness ==
    /\ last.op = "execute"
    /\ last.args.statement = Str(" select 1")
    /\ last.res = "ErrUseQuery"
    /\ server.db = "nil"
    /\ proc = "running"


(***************************************************************************)
(* Tables and indexes.  indexes lists the indexes of a database in the     *)
(* order of sqlite_master: each has its name, its table, whether it is     *)
(* UNIQUE, its columns in index order, and its origin: "c" for CREATE      *)
(* INDEX, "u" for the automatic index of a UNIQUE constraint.              *)
(***************************************************************************)
Index(name, table, unique, columns, origin) ==
    [name |-> name, table |-> table, unique |-> unique, columns |-> columns,
     origin |-> origin]

Indexes(db) == IF "indexes" \in DOMAIN db THEN db.indexes ELSE <<>>

Schema(tables, indexes) ==
    [kind |-> "db", tables |-> tables, rows |-> {}, indexes |-> indexes]

RECURSIVE AllIn(_, _)
AllIn(s, alphabet) ==
    Len(s) = 0
    \/ (IndexIn(SubSeq(s, 1, 1), alphabet, 1) # 0 /\ AllIn(SubSeq(s, 2, Len(s)), alphabet))

\* The engine reads the text as one identifier.
IsIdentifier(name) ==
    /\ Len(name) > 0
    /\ IndexIn(SubSeq(name, 1, 1), "0123456789", 1) = 0
    /\ AllIn(name, LowerCase \o UpperCase \o "0123456789_")

\* The engine on DROP TABLE IF EXISTS followed by the name as written.
DropTableIn(db, tableName) ==
    IF ~IsIdentifier(tableName) THEN [err |-> "ErrEngine", db |-> db]
    ELSE IF tableName \notin db.tables THEN [err |-> "ok", db |-> db]
    ELSE LET Kept(index) == index.table # tableName
         IN  [err |-> "ok",
              db |-> [kind |-> "db", tables |-> db.tables \ {tableName},
                      rows |-> IF tableName = "t" THEN {} ELSE db.rows,
                      indexes |-> SelectSeq(Indexes(db), Kept)]]

\* The engine on DROP INDEX IF EXISTS followed by the name as written: the
\* automatic index of a constraint cannot be dropped.
DropIndexIn(db, indexName) ==
    LET Named(index) == index.name = indexName
        Kept(index) == index.name # indexName
        found == SelectSeq(Indexes(db), Named)
    IN  IF ~IsIdentifier(indexName) THEN [err |-> "ErrEngine", db |-> db]
        ELSE IF found = <<>> THEN [err |-> "ok", db |-> db]
        ELSE IF found[1].origin # "c" THEN [err |-> "ErrEngine", db |-> db]
        ELSE [err |-> "ok",
              db |-> [kind |-> "db", tables |-> db.tables, rows |-> db.rows,
                      indexes |-> SelectSeq(Indexes(db), Kept)]]

\* What DropTable and DropIndex return after s.db.Exec returned run.
Dropped(w, run) ==
    [err |-> run.err, w |-> IF run.err = "ok" THEN Store(w, run.db) ELSE w]

DropTable(w, tableName) ==
    IF ~IsOpen(w) THEN [err |-> "ErrClosed", w |-> w]
    ELSE Dropped(w, DropTableIn(Content(w), tableName))

DropIndex(w, indexName) ==
    IF ~IsOpen(w) THEN [err |-> "ErrClosed", w |-> w]
    ELSE Dropped(w, DropIndexIn(Content(w), indexName))

\* Two values of type interface{} are equal: the same dynamic type and the
\* same value.
SameValue(a, b) == a.t = b.t /\ a.v = b.v

\* The rows ExecuteQuery returns for the query of sqlite_master in
\* GetIndexes.
IndexRows(db, tableName) ==
    LET Listed(index) ==
            index.table = tableName /\ ~HasPrefix(index.name, "sqlite_autoindex_")
    IN  SelectSeq(Indexes(db), Listed)

\* The rows ExecuteQuery returns for PRAGMA index_list: the name is text,
\* which it returns as a string, and unique is an integer, which it returns
\* as the driver's int64.
IndexList(db, tableName) ==
    LET OfTable(index) == index.table = tableName
        listed == SelectSeq(Indexes(db), OfTable)
    IN  [k \in 1..Len(listed) |->
            [name |-> Str(listed[k].name),
             unique |-> Num(IF listed[k].unique THEN 1 ELSE 0)]]

\* The loop of GetIndexes over listInfo.
RECURSIVE IsUniqueFrom(_, _, _)
IsUniqueFrom(listInfo, indexName, k) ==
    IF k > Len(listInfo) THEN FALSE
    ELSE IF SameValue(listInfo[k].name, Str(indexName))
         THEN SameValue(listInfo[k].unique, Str("1"))
    ELSE IsUniqueFrom(listInfo, indexName, k + 1)

DetailedIndex(db, tableName, index) ==
    [name |-> index.name, columns |-> index.columns,
     unique |-> IsUniqueFrom(IndexList(db, tableName), index.name, 1),
     table_name |-> tableName]

GetIndexesIn(db, tableName, indexes) ==
    [k \in 1..Len(indexes) |-> DetailedIndex(db, tableName, indexes[k])]

GetIndexes(w, tableName) ==
    IF ~IsOpen(w) THEN [err |-> "ErrClosed", indexes |-> <<>>]
    ELSE [err |-> "ok",
          indexes |-> GetIndexesIn(Content(w), tableName,
                                   IndexRows(Content(w), tableName))]

handleDropTableTool(w, tableName) ==
    IF ~IsString(tableName) THEN Result("ErrArg", w, "")
    ELSE IF w.server.db = "nil"
         THEN After(<<Call("DropTable", tableName.v)>>, Result("panic", w, ""))
    ELSE LET run == DropTable(w, tableName.v)
         IN  After(<<Call("DropTable", tableName.v)>>,
                   IF run.err # "ok" THEN Result("ErrDrop", w, "")
                   ELSE Result("ok", run.w, tableName.v))

handleDropIndexTool(w, indexName) ==
    IF ~IsString(indexName) THEN Result("ErrArg", w, "")
    ELSE IF w.server.db = "nil"
         THEN After(<<Call("DropIndex", indexName.v)>>, Result("panic", w, ""))
    ELSE LET run == DropIndex(w, indexName.v)
         IN  After(<<Call("DropIndex", indexName.v)>>,
                   IF run.err # "ok" THEN Result("ErrDrop", w, "")
                   ELSE Result("ok", run.w, indexName.v))

handleListIndexesTool(w, tableName) ==
    IF ~IsString(tableName) THEN Result("ErrArg", w, "")
    ELSE IF w.server.db = "nil"
         THEN After(<<Call("GetIndexes", tableName.v)>>, Result("panic", w, ""))
    ELSE LET listing == GetIndexes(w, tableName.v)
         IN  After(<<Call("GetIndexes", tableName.v)>>,
                   IF listing.err # "ok" THEN Result(listing.err, w, "")
                   ELSE Result("ok", w,
                               [names |-> [k \in 1..Len(listing.indexes) |->
                                              listing.indexes[k].name],
                                indexes |-> listing.indexes]))

(***************************************************************************)
(* The specification of the schema tools: the process after main found     *)
(* /d/a.db, a database with some of the tables t and u and some of their   *)
(* indexes, then calls of drop_table, drop_index and list_indexes.         *)
(***************************************************************************)
SchemaIndexes ==
    <<Index("sqlite_autoindex_t_1", "t", TRUE, <<"a">>, "u"),
      Index("i1", "t", TRUE, <<"b", "a">>, "c"),
      Index("i2", "t", FALSE, <<"a">>, "c"),
      Index("i3", "u", FALSE, <<"c">>, "c")>>

SchemaDisks ==
    {[f \in {"/d/a.db"} |->
        LET Present(index) == index.name \in names /\ index.table \in tables
        IN  Schema(tables, SelectSeq(SchemaIndexes, Present))] :
       tables \in (SUBSET {"t", "u"}) \ {{}},
       names \in SUBSET {SchemaIndexes[k].name : k \in 1..Len(SchemaIndexes)}}

TableArgs == {Absent, Str("t"), Str("u"), Str("v"), Str("my-table")}

IndexArgs == {Absent, Str("i1"), Str("i3"), Str("i4"), Str("sqlite_autoindex_t_1")}

SchemaInit ==
    \E disk \in SchemaDisks, args \in StmtStartArgs :
        \E start \in {main(disk, args, TRUE)} :
            /\ server = start.w.server
            /\ sqlite = start.w.sqlite
            /\ conns = start.w.conns
            /\ fs = start.w.fs
            /\ proc = start.proc
            /\ last = [op |-> "main", args |-> args, res |-> start.proc,
                       out |-> "", peak |-> Cardinality(start.w.conns),
                       before |-> 0, acc |-> <<>>]

DropTableTool ==
    /\ proc = "running"
    /\ \E tableName \in TableArgs :
          Return("drop_table", [table_name |-> tableName],
                 handleDropTableTool(World, tableName))

DropIndexTool ==
    /\ proc = "running"
    /\ \E indexName \in IndexArgs :
          Return("drop_index", [index_name |-> indexName],
                 handleDropIndexTool(World, indexName))

ListIndexesTool ==
    /\ proc = "running"
    /\ \E tableName \in TableArgs :
          Return("list_indexes", [table_name |-> tableName],
                 handleListIndexesTool(World, tableName))

SchemaNext == DropTableTool \/ DropIndexTool \/ ListIndexesTool

SpecSchema == SchemaInit /\ [][SchemaNext]_vars


TableNames(db) == db.tables

IndexNames(db) == {Indexes(db)[k].name : k \in 1..Len(Indexes(db))}

\* C17: drop_table and drop_index are idempotent: on a table or index that
\* does not exist they succeed without error and leave the database
\* unchanged, and a call leaves no table or index of that name, so that
\* calling either twice in a row with the same name leaves the same database
\* as calling it once, with both calls succeeding.
C17_DropIdempotent ==
    [][/\ (/\ last'.op = "drop_table"
           /\ IsString(last'.args.table_name)
           /\ server.db = "handle")
            => /\ last'.res = "ok"
               /\ last'.args.table_name.v \notin TableNames(Content([World EXCEPT !.fs = fs']))
               /\ last'.args.table_name.v \notin TableNames(Content(World)) => fs' = fs
       /\ (/\ last'.op = "drop_index"
           /\ IsString(last'.args.index_name)
           /\ server.db = "handle")
            => /\ last'.res = "ok"
               /\ last'.args.index_name.v \notin IndexNames(Content([World EXCEPT !.fs = fs']))
               /\ last'.args.index_name.v \notin IndexNames(Content(World)) => fs' = fs]_vars

\* C18: for every table, getIndexes returns one entry per user-defined index
\* of that table (automatic indexes excluded), and in each entry the
\* uniqueness flag is true exactly when the index was created as UNIQUE and
\* the column list is the index's columns in index order.
C18_GetIndexes ==
    (last.op = "list_indexes" /\ last.res = "ok") =>
        LET IsUserIndex(index) ==
                index.table = last.args.table_name.v /\ index.origin = "c"
            user == SelectSeq(Indexes(Content(World)), IsUserIndex)
            got == last.out.indexes
        IN  /\ Len(got) = Len(user)
            /\ \A k \in 1..Len(user) :
                  /\ got[k].name = user[k].name
                  /\ got[k].unique = user[k].unique
                  /\ got[k].columns = user[k].columns


(***************************************************************************)
(* The specification of ListDatabaseFiles: a disk and a directory path,    *)
(* then its call.                                                          *)
(***************************************************************************)
ListFiles == {"/d/a.db", "/d/b.sqlite", "/d/c.sqlite3", "/d/a.txt", "/dd/a.db"}

ListContents == {Junk, EmptyDatabase, Database({"t"}, {})}

ListDisks == UNION {[present -> ListContents] : present \in SUBSET ListFiles}

ListDirs == {"", "/d", "/d/", "/dd", "/x"}

ListInit ==
    /\ server = NewSQLiteServerWithoutDB(NoFiles).server
    /\ sqlite = NoHandle
    /\ conns = {}
    /\ proc = "running"
    /\ fs \in ListDisks
    /\ \E dirPath \in ListDirs : last = [op |-> "input", dirPath |-> dirPath]

ListCall ==
    /\ last.op = "input"
    /\ last' = [op |-> "ListDatabaseFiles", dirPath |-> last.dirPath,
                res |-> ListDatabaseFiles(fs, last.dirPath)]
    /\ UNCHANGED <<server, sqlite, conns, fs, proc>>

ListNext == ListCall

SpecList == ListInit /\ [][ListNext]_vars

\* C19: every path returned by ListDatabaseFiles(dir) is a file of dir whose
\* name ends in .db, .sqlite or .sqlite3 and that passes at least one of the
\* two validity checks (DatabaseExists, isValidSQLiteFile): no file that
\* fails both is returned.
C19_ListedAreValid ==
    last.op = "ListDatabaseFiles" =>
        \A k \in 1..Len(last.res) :
            LET path == last.res[k]
            IN  /\ path \in DOMAIN fs
                /\ DirOf(path) = Clean(IF last.dirPath = "" THEN "." ELSE last.dirPath)
                /\ \/ HasSuffix(path, ".db")
                   \/ HasSuffix(path, ".sqlite")
                   \/ HasSuffix(path, ".sqlite3")
                /\ fs[path].kind = "db"
                /\ DatabaseExists(fs, path).exists \/ isValidSQLiteFile(fs, path)

\* C19 witness: of /d holding a junk a.db, a database b.sqlite, an empty
\* c.sqlite3 and a database a.txt, the listing is b.sqlite and c.sqlite3.
C19_Witness ==
    /\ last.op = "ListDatabaseFiles"
    /\ last.dirPath = "/d/"
    /\ fs = [f \in {"/d/a.db", "/d/b.sqlite", "/d/c.sqlite3", "/d/a.txt"} |->
                IF f = "/d/a.db" THEN Junk
                ELSE IF f = "/d/c.sqlite3" THEN EmptyDatabase
                ELSE Database({"t"}, {})]
    /\ last.res = <<"/d/b.sqlite", "/d/c.sqlite3">>


(***************************************************************************)
(* Startup.  The repository holds two main functions: the one of main.go,  *)
(* and a strict one that scans directories only and exits when it finds no *)
(* database.                                                               *)
(***************************************************************************)
\* The loop of the strict main over its arguments.
RECURSIVE FirstDirectoryDatabase(_, _, _)
FirstDirectoryDatabase(fsys, args, i) ==
    IF i > Len(args) THEN ""
    ELSE IF Exists(fsys, args[i]) /\ IsDir(args[i])
              /\ Len(ListDatabaseFiles(fsys, args[i])) > 0
         THEN ListDatabaseFiles(fsys, args[i])[1]
    ELSE FirstDirectoryDatabase(fsys, args, i + 1)

\* The strict main from the found path on.
StrictStarted(fsys, args, openOk, dbPath) ==
    IF dbPath = ""
    THEN [w |-> NewSQLiteServerWithoutDB(fsys), proc |-> "exited"]
    ELSE LET srv == NewSQLiteServerWithDirs(fsys, dbPath, args, openOk)
         IN  [w |-> srv.w, proc |-> IF srv.err = "ok" THEN "running" ELSE "exited"]

\* The state the strict main leaves the process in: [w, proc].
mainStrict(fsys, args, openOk) ==
    IF Len(args) = 0
    THEN [w |-> NewSQLiteServerWithoutDB(fsys), proc |-> "exited"]
    ELSE StrictStarted(fsys, args, openOk, FirstDirectoryDatabase(fsys, args, 1))

(***************************************************************************)
(* The specification of startup: a disk and the arguments of the process,  *)
(* then one of the two main functions.                                     *)
(***************************************************************************)
StartupArgs ==
    {<<"/d">>, <<"/dd", "/d">>, <<"/d/b.db", "/d">>, <<"/x", "/d/a.db">>,
     <<"/d/a.txt", "/dd">>}

StartupInit ==
    /\ server = NewSQLiteServerWithoutDB(NoFiles).server
    /\ sqlite = NoHandle
    /\ conns = {}
    /\ proc = "starting"
    /\ fs \in StartDisks
    /\ \E args \in StartupArgs, openOk \in BOOLEAN :
          last = [op |-> "input", args |-> args, openOk |-> openOk]

Started(op, start) ==
    /\ server' = start.w.server
    /\ sqlite' = start.w.sqlite
    /\ conns' = start.w.conns
    /\ fs' = start.w.fs
    /\ proc' = start.proc
    /\ last' = [op |-> op, args |-> last.args, openOk |-> last.openOk]

StartMain ==
    /\ last.op = "input"
    /\ \E start \in {main(fs, last.args, last.openOk)} : Started("main", start)

StartMainStrict ==
    /\ last.op = "input"
    /\ \E start \in {mainStrict(fs, last.args, last.openOk)} :
          Started("mainStrict", start)

StartupNext == StartMain \/ StartMainStrict

SpecStartup == StartupInit /\ [][StartupNext]_vars

\* The databases an argument yields: the listing of a directory, or the
\* argument itself when it is a file with a database extension.
Yields(fsys, path, files) ==
    IF ~Exists(fsys, path) THEN <<>>
    ELSE IF IsDir(path) THEN ListDatabaseFiles(fsys, path)
    ELSE IF files /\ isDBFile(path) THEN <<path>>
    ELSE <<>>

\* The first database the arguments yield when scanned in order, "" if none;
\* files tells whether an argument that is a file counts.
FirstFound(fsys, args, files) ==
    LET yielding == {i \in 1..Len(args) : Yields(fsys, args[i], files) # <<>>}
    IN  IF yielding = {} THEN ""
        ELSE Yields(fsys, args[CHOOSE i \in yielding : \A j \in yielding : i <= j],
                    files)[1]

\* The server is connected to the database at path, with the arguments as
\* its allowed roots.
ActiveIs(path) ==
    /\ proc = "running"
    /\ server.db = "handle"
    /\ server.dbPath = path
    /\ IsOpen(World)
    /\ sqlite.db.file = Clean(path)
    /\ server.allowedDirs = last.args

Unconnected ==
    /\ proc = "running"
    /\ server.db = "nil"
    /\ conns = {}
    /\ server.allowedDirs = last.args

FatalExit == proc = "exited" /\ conns = {}

RECURSIVE Concat(_)
Concat(parts) == IF parts = <<>> THEN "" ELSE Head(parts) \o Concat(Tail(parts))

\* The lowercased purpose with spaces and hyphens turned into underscores
\* and every character other than a-z, 0-9 and "_" removed.
SlugSource(purpose) ==
    LET lower == ToLower(purpose)
        Turned(c) == IF c = " " \/ c = "-" THEN "_" ELSE c
        Allowed(c) == \E i \in 1..37 :
                         SubSeq("abcdefghijklmnopqrstuvwxyz0123456789_", i, i) = c
    IN  Concat([i \in 1..Len(lower) |->
                   IF Allowed(Turned(SubSeq(lower, i, i)))
                   THEN Turned(SubSeq(lower, i, i)) ELSE ""])

LeadingKeyword(stmt) == FirstField(TrimSpace(stmt))

\* The number of the first of statements that fails in a transaction begun on
\* db, 0 when none fails.
FirstFailing(db, statements) == ExecFrom(Begin(db), statements, 1, 0, 0).index

\* C25: when statement k (counted from 1) of a transaction is the first to
\* fail, the error names index k and the leading keyword of statement k,
\* also when the statement begins with white space, and the statements after
\* k are not executed.
C25_ErrorNamesStatement ==
    [][(/\ last'.op = "transaction"
        /\ last'.res = "ErrStatement")
         => LET statements == [i \in 1..Len(last'.args.statements.v) |->
                                  last'.args.statements.v[i].v]
                k == FirstFailing(Content(World), statements)
            IN  /\ k \in 1..Len(statements)
                /\ last'.out.index = k
                /\ last'.out.keyword = LeadingKeyword(statements[k])
                /\ last'.out.executed = k - 1]_vars


(***************************************************************************)
(* The paths recorded for the active database.                             *)
(***************************************************************************)
\* C27: in every state that tool calls reach on a server started with a
\* database, the path recorded by the server equals the path recorded by the
\* handle, and both are the path of the file that the handle's open
\* connection was opened on.
C27_RecordedPathsAgree ==
    (server.db = "handle" /\ proc = "running")
        => /\ server.dbPath = sqlite.dbPath
           /\ IsOpen(World)
           /\ sqlite.db.file = Clean(sqlite.dbPath)


(***************************************************************************)
(* A switch_database that is rejected before SQLiteDB.SwitchDatabase.      *)
(***************************************************************************)
\* The results of handleSwitchDatabase before it calls the handle.
SwitchRejections == {"ErrArg", "ErrFileNotAllowed", "ErrNotFound"}

\* C28: a switch_database that is rejected before the handle is asked to
\* switch (db_path missing, path outside the allowed roots, target not a
\* valid database) leaves the active connection open and both recorded paths
\* as they were, so that a query after it reads the same database as before.
C28_RejectedSwitchKeepsConnection ==
    [][(/\ last'.op = "switch_database"
        /\ last'.res \in SwitchRejections
        /\ server.db = "handle")
         => /\ conns' = conns
            /\ sqlite' = sqlite
            /\ server' = server
            /\ IsOpen(World) => IsOpen([server |-> server', sqlite |-> sqlite',
                                         conns |-> conns', fs |-> fs'])
            /\ Content([server |-> server', sqlite |-> sqlite',
                        conns |-> conns', fs |-> fs']) = Content(World)]_vars

\* C28 witness: with /d/a.db active and its connection open, a switch to a
\* path that holds no valid database was rejected, and the connection is
\* still open on /d/a.db.
C28_Witness ==
    /\ last.op = "switch_database"
    /\ last.res = "ErrNotFound"
    /\ last.before = 1
    /\ IsOpen(World)
    /\ sqlite.dbPath = "/d/a.db"
    /\ server.dbPath = "/d/a.db"


(***************************************************************************)
(* The tools that only report.                                             *)
(***************************************************************************)
ReportingTools == {"database_exists", "list_database_files", "current_database"}

\* C30: database_exists, list_database_files and current_database change
\* nothing, whatever their arguments and whether they succeed or fail: the
\* files on the disk and their contents, the active connection, the recorded
\* paths and the allowed roots are after the call what they were before it;
\* database_exists on a path that holds no file does not create one.
C30_ReportingToolsChangeNothing ==
    [][last'.op \in ReportingTools
         => /\ fs' = fs
            /\ conns' = conns
            /\ sqlite' = sqlite
            /\ server' = server]_vars


(***************************************************************************)
(* create_table and describe_table.  A database of these tools is          *)
(* Tabled(columns, indexes): columns gives, for each table, its columns    *)
(* in order, each with the name and the declared type the engine keeps.    *)
(***************************************************************************)
Tabled(columns, indexes) ==
    [kind |-> "db", tables |-> DOMAIN columns, rows |-> {}, indexes |-> indexes,
     columns |-> columns]

TableColumns(db, table) ==
    IF "columns" \in DOMAIN db /\ table \in DOMAIN db.columns
    THEN db.columns[table] ELSE <<>>

\* A JSON object of the argument map.
Obj(fields) == [t |-> "object", v |-> fields]
IsObject(a) == a.t = "object"

\* strings.Join.
RECURSIVE StringsJoin(_, _)
StringsJoin(elems, sep) ==
    IF elems = <<>> THEN ""
    ELSE IF Len(elems) = 1 THEN elems[1]
    ELSE elems[1] \o sep \o StringsJoin(Tail(elems), sep)

\* The pieces of s between the occurrences of the character sep.
RECURSIVE SplitOnFrom(_, _, _, _, _)
SplitOnFrom(s, sep, i, cur, acc) ==
    IF i > Len(s) THEN Append(acc, cur)
    ELSE IF SubSeq(s, i, i) = sep THEN SplitOnFrom(s, sep, i + 1, "", Append(acc, cur))
    ELSE SplitOnFrom(s, sep, i + 1, cur \o SubSeq(s, i, i), acc)

SplitOn(s, sep) == SplitOnFrom(s, sep, 1, "", <<>>)

\* The tokens of s that the engine's tokenizer separates at white space.
Tokens(s) ==
    LET NonEmpty(token) == token # ""
    IN  SelectSeq(SplitOn(ReplaceAll(ReplaceAll(s, "\t", " "), "\n", " "), " "), NonEmpty)

\* The words that end the type name of a column definition.
ConstraintWords ==
    {"CONSTRAINT", "PRIMARY", "NOT", "NULL", "UNIQUE", "CHECK", "DEFAULT",
     "COLLATE", "REFERENCES", "GENERATED", "AS"}

\* The number of tokens of a column definition, after its first, that make
\* up the type name.
RECURSIVE TypeLength(_, _)
TypeLength(tokens, i) ==
    IF i > Len(tokens) \/ ToUpper(tokens[i]) \in ConstraintWords THEN i - 2
    ELSE TypeLength(tokens, i + 1)

\* The column the engine reads from the tokens of one column definition.
ColumnOf(tokens) ==
    [name |-> tokens[1],
     type |-> StringsJoin(SubSeq(tokens, 2, 1 + TypeLength(tokens, 2)), " ")]

\* The engine on the text of a CREATE TABLE statement: the table's name is
\* what stands before the first parenthesis, the column definitions are
\* what the commas between the parentheses separate.
CreateTableParsed(text) ==
    LET rest == SubSeq(text, Len("CREATE TABLE ") + 1, Len(text))
        open == IndexIn("(", rest, 1)
        name == TrimSpace(SubSeq(rest, 1, open - 1))
        defs == SplitOn(SubSeq(rest, open + 1, Len(rest) - 1), ",")
        tokens == [i \in 1..Len(defs) |-> Tokens(defs[i])]
    IN  IF \/ open = 0
           \/ ~IsIdentifier(name)
           \/ \E i \in 1..Len(defs) :
                 \/ tokens[i] = <<>>
                 \/ ~IsIdentifier(tokens[i][1])
                 \/ ToUpper(tokens[i][1]) \in ConstraintWords
        THEN [ok |-> FALSE, name |-> "", columns |-> <<>>]
        ELSE [ok |-> TRUE, name |-> name,
              columns |-> [i \in 1..Len(defs) |-> ColumnOf(tokens[i])]]

\* The engine on a parsed CREATE TABLE: an error when the table exists or
\* two columns have one name.
CreateTableIn(db, parsed) ==
    IF \/ ~parsed.ok
       \/ db.kind # "db"
       \/ parsed.name \in db.tables
       \/ \E i, j \in 1..Len(parsed.columns) :
             i < j /\ ToUpper(parsed.columns[i].name) = ToUpper(parsed.columns[j].name)
    THEN [err |-> "ErrEngine", db |-> db]
    ELSE [err |-> "ok",
          db |-> [kind |-> "db", tables |-> db.tables \cup {parsed.name},
                  rows |-> db.rows, indexes |-> Indexes(db),
                  columns |-> [table \in db.tables \cup {parsed.name} |->
                                  IF table = parsed.name THEN parsed.columns
                                  ELSE TableColumns(db, table)]]]

\* The definition CreateTable writes for one column.
ColumnDef(col) ==
    col.name \o " " \o col.type
        \o (IF col.constraints # "" THEN " " \o col.constraints ELSE "")

\* SQLiteDB.CreateTable after its loop: the statement and s.db.Exec, the
\* first use of the receiver, which is nil on a server without a database.
CreateTableExec(w, createSQL) ==
    IF w.server.db = "nil" THEN [err |-> "panic", w |-> w, sent |-> <<>>]
    ELSE IF ~IsOpen(w) THEN [err |-> "ErrClosed", w |-> w, sent |-> <<createSQL>>]
    ELSE LET run == CreateTableIn(Content(w), CreateTableParsed(createSQL))
         IN  [err |-> run.err, sent |-> <<createSQL>>,
              w |-> IF run.err = "ok" THEN Store(w, run.db) ELSE w]

\* CreateTable that writes the definitions of the columns without looking at
\* their names and types.
CreateTable_Unvalidated(w, tableName, columns) ==
    IF Len(columns) = 0 THEN [err |-> "ErrNoColumns", w |-> w, sent |-> <<>>]
    ELSE CreateTableExec(w, "CREATE TABLE " \o tableName \o " ("
                              \o StringsJoin([i \in 1..Len(columns) |->
                                                 ColumnDef(columns[i])], ", ")
                              \o ")")

\* SQLiteDB.CreateTable.  columns holds, per column, the strings of the
\* keys name, type and constraints, "" for a key the map lacks.
CreateTable(w, tableName, columns) ==
    IF Len(columns) = 0 THEN [err |-> "ErrNoColumns", w |-> w, sent |-> <<>>]
    ELSE IF \E i \in 1..Len(columns) : columns[i].name = "" \/ columns[i].type = ""
         THEN [err |-> "ErrColumn", w |-> w, sent |-> <<>>]
    ELSE CreateTableExec(w, "CREATE TABLE " \o tableName \o " ("
                              \o StringsJoin([i \in 1..Len(columns) |->
                                                 ColumnDef(columns[i])], ", ")
                              \o ")")

\* The engine on PRAGMA table_info('tableName'): one row per column, none
\* for a table that does not exist; a quote in the name ends the literal.
TableInfo(db, tableName) ==
    IF IndexIn("'", tableName, 1) # 0 \/ db.kind # "db"
    THEN [err |-> "ErrEngine", rows |-> <<>>]
    ELSE [err |-> "ok", rows |-> TableColumns(db, tableName)]

\* SQLiteDB.GetTableSchema.
GetTableSchema(w, tableName) ==
    IF ~IsOpen(w) THEN [err |-> "ErrClosed", rows |-> <<>>]
    ELSE TableInfo(Content(w), tableName)

\* colMap[key].(string) as handleCreateTable stores it: the string, or no
\* entry, which CreateTable reads as "".
StringOr(value) == IF IsString(value) THEN value.v ELSE ""

\* handleCreateTable after its conversion loop.
TableCreated(w, tableName, created) ==
    [res |-> IF created.err \in {"ok", "panic"} THEN created.err ELSE "ErrCreateTable",
     w |-> created.w, out |-> created.err, peak |-> Cardinality(w.conns),
     acc |-> <<Call("CreateTable", tableName)>>
                 \o [i \in 1..Len(created.sent) |-> Call("Exec", created.sent[i])]]

handleCreateTable(w, tableName, columnsRaw) ==
    IF ~IsString(tableName) THEN Result("ErrArg", w, "")
    ELSE IF columnsRaw = Absent \/ ~IsArray(columnsRaw) THEN Result("ErrArg", w, "")
    ELSE IF \E i \in 1..Len(columnsRaw.v) : ~IsObject(columnsRaw.v[i])
         THEN Result("ErrArg", w, "")
    ELSE TableCreated(w, tableName.v,
             CreateTable(w, tableName.v,
                 [i \in 1..Len(columnsRaw.v) |->
                     [name |-> StringOr(columnsRaw.v[i].v.name),
                      type |-> StringOr(columnsRaw.v[i].v.type),
                      constraints |-> StringOr(columnsRaw.v[i].v.constraints)]]))

handleDescribeTable(w, tableName) ==
    IF ~IsString(tableName) THEN Result("ErrArg", w, "")
    ELSE IF w.server.db = "nil"
         THEN After(<<Call("GetTableSchema", tableName.v)>>, Result("panic", w, ""))
    ELSE LET schema == GetTableSchema(w, tableName.v)
         IN  After(<<Call("GetTableSchema", tableName.v)>>,
                   IF schema.err # "ok" THEN Result("ErrDescribe", w, <<>>)
                   ELSE Result("ok", w, schema.rows))


(***************************************************************************)
(* create_index.  CreateIndex is the simple form, CreateIndexWithOptions   *)
(* the extended one; each gives the statement it sends to the engine, if   *)
(* any.                                                                    *)
(***************************************************************************)
\* IndexColumn.
IndexColumn(name, sortOrder) == [Name |-> name, SortOrder |-> sortOrder]

\* IndexOptions.
IndexOptions(indexName, tableName, columns, unique, ifNotExists, whereClause) ==
    [IndexName |-> indexName, TableName |-> tableName, Columns |-> columns,
     Unique |-> unique, IfNotExists |-> ifNotExists, WhereClause |-> whereClause]

\* What a form does before s.db.Exec: a validation error, or the statement.
Refused(err) == [err |-> err, sent |-> <<>>]
Statement(query) == [err |-> "ok", sent |-> <<query>>]

\* CreateIndex up to s.db.Exec.
CreateIndexQuery(indexName, tableName, columns, unique, ifNotExists) ==
    IF Len(columns) = 0 THEN Refused("ErrNoColumns")
    ELSE Statement("CREATE " \o (IF unique THEN "UNIQUE " ELSE "") \o "INDEX "
                   \o (IF ifNotExists THEN "IF NOT EXISTS " ELSE "")
                   \o indexName \o " ON " \o tableName
                   \o " (" \o StringsJoin(columns, ", ") \o ")")

\* The column specification CreateIndexWithOptions writes for col.
ColumnSpec(col) ==
    col.Name \o (IF col.SortOrder # "" THEN " " \o ToUpper(col.SortOrder) ELSE "")

\* CreateIndexWithOptions up to s.db.Exec.
CreateIndexWithOptionsQuery(options) ==
    IF options.IndexName = "" THEN Refused("ErrNoIndexName")
    ELSE IF options.TableName = "" THEN Refused("ErrNoTableName")
    ELSE IF Len(options.Columns) = 0 THEN Refused("ErrNoColumns")
    ELSE Statement(StringsJoin(
             <<"CREATE">>
                 \o (IF options.Unique THEN <<"UNIQUE">> ELSE <<>>)
                 \o <<"INDEX">>
                 \o (IF options.IfNotExists THEN <<"IF NOT EXISTS">> ELSE <<>>)
                 \o <<options.IndexName, "ON", options.TableName,
                      "(" \o StringsJoin([i \in 1..Len(options.Columns) |->
                                             ColumnSpec(options.Columns[i])], ", ")
                          \o ")">>
                 \o (IF options.WhereClause # ""
                     THEN <<"WHERE", options.WhereClause>> ELSE <<>>),
             " "))

\* The engine's reading of the text of a CREATE INDEX statement.
CreateIndexParsed(text) ==
    LET open == IndexIn("(", text, 1)
        close == IndexIn(")", text, 1)
        head == Tokens(SubSeq(text, 1, open - 1))
        specs == SplitOn(SubSeq(text, open + 1, close - 1), ",")
        tokens == [i \in 1..Len(specs) |-> Tokens(specs[i])]
        tail == Tokens(SubSeq(text, close + 1, Len(text)))
        unique == Len(head) >= 2 /\ head[2] = "UNIQUE"
        afterIndex == SubSeq(head, IF unique THEN 4 ELSE 3, Len(head))
        ifNotExists == Len(afterIndex) >= 3
                           /\ SubSeq(afterIndex, 1, 3) = <<"IF", "NOT", "EXISTS">>
        named == IF ifNotExists THEN SubSeq(afterIndex, 4, Len(afterIndex))
                 ELSE afterIndex
    IN  IF \/ open = 0 \/ close < open
           \/ Len(head) < (IF unique THEN 3 ELSE 2)
           \/ head[1] # "CREATE"
           \/ head[IF unique THEN 3 ELSE 2] # "INDEX"
           \/ Len(named) # 3
           \/ ToUpper(named[2]) # "ON"
           \/ ~IsIdentifier(named[1]) \/ ~IsIdentifier(named[Len(named)])
           \/ \E i \in 1..Len(specs) :
                 \/ Len(tokens[i]) \notin {1, 2}
                 \/ ~IsIdentifier(tokens[i][1])
                 \/ Len(tokens[i]) = 2 /\ tokens[i][2] \notin {"ASC", "DESC"}
           \/ tail # <<>> /\ (ToUpper(tail[1]) # "WHERE" \/ Len(tail) < 2)
        THEN [ok |-> FALSE]
        ELSE [ok |-> TRUE, name |-> named[1], table |-> named[3], unique |-> unique,
              ifNotExists |-> ifNotExists,
              columns |-> [i \in 1..Len(specs) |-> tokens[i][1]]]

\* The engine on a parsed CREATE INDEX.
CreateIndexIn(db, parsed) ==
    LET Named(index) == index.name = parsed.name
        names == {TableColumns(db, parsed.table)[k].name :
                     k \in 1..Len(TableColumns(db, parsed.table))}
    IN  IF ~parsed.ok \/ db.kind # "db" THEN [err |-> "ErrEngine", db |-> db]
        ELSE IF SelectSeq(Indexes(db), Named) # <<>>
             THEN [err |-> IF parsed.ifNotExists THEN "ok" ELSE "ErrEngine", db |-> db]
        ELSE IF \/ parsed.name \in db.tables
                \/ parsed.table \notin db.tables
                \/ \E i \in 1..Len(parsed.columns) : parsed.columns[i] \notin names
             THEN [err |-> "ErrEngine", db |-> db]
        ELSE [err |-> "ok",
              db |-> [kind |-> "db", tables |-> db.tables, rows |-> db.rows,
                      indexes |-> Append(Indexes(db),
                                         Index(parsed.name, parsed.table, parsed.unique,
                                               parsed.columns, "c")),
                      columns |-> [table \in db.tables |-> TableColumns(db, table)]]]

\* A form after it built prepared: the validation error, or s.db.Exec of the
\* statement, which is the first use of the receiver.
IndexExec(w, prepared) ==
    IF prepared.err # "ok" THEN [err |-> prepared.err, w |-> w, sent |-> <<>>]
    ELSE IF w.server.db = "nil" THEN [err |-> "panic", w |-> w, sent |-> <<>>]
    ELSE IF ~IsOpen(w) THEN [err |-> "ErrClosed", w |-> w, sent |-> prepared.sent]
    ELSE LET run == CreateIndexIn(Content(w), CreateIndexParsed(prepared.sent[1]))
         IN  [err |-> run.err, sent |-> prepared.sent,
              w |-> IF run.err = "ok" THEN Store(w, run.db) ELSE w]

\* SQLiteDB.CreateIndex.
CreateIndex(w, indexName, tableName, columns, unique, ifNotExists) ==
    IndexExec(w, CreateIndexQuery(indexName, tableName, columns, unique, ifNotExists))

\* SQLiteDB.CreateIndexWithOptions.
CreateIndexWithOptions(w, options) ==
    IndexExec(w, CreateIndexWithOptionsQuery(options))

\* args[key].(bool) with the default false.
BoolOr(value) == IsBool(value) /\ value.v

\* handleCreateIndexTool after the form named form returned created.
IndexCreated(w, form, indexName, created) ==
    [res |-> IF created.err \in {"ok", "panic"} THEN created.err ELSE "ErrCreateIndex",
     w |-> created.w, out |-> [form |-> form, err |-> created.err],
     peak |-> Cardinality(w.conns),
     acc |-> <<Call(form, indexName)>>
                 \o [i \in 1..Len(created.sent) |-> Call("Exec", created.sent[i])]]

\* handleCreateIndexTool after it read its arguments.
IndexRequested(w, indexName, tableName, indexColumns, unique, ifNotExists, whereClause) ==
    IF \/ Len(indexColumns) > 1
       \/ whereClause # ""
       \/ (Len(indexColumns) = 1 /\ indexColumns[1].SortOrder # "")
    THEN IndexCreated(w, "CreateIndexWithOptions", indexName,
             CreateIndexWithOptions(w,
                 IndexOptions(indexName, tableName, indexColumns, unique,
                              ifNotExists, whereClause)))
    ELSE IndexCreated(w, "CreateIndex", indexName,
             CreateIndex(w, indexName, tableName,
                         [i \in 1..Len(indexColumns) |-> indexColumns[i].Name],
                         unique, ifNotExists))

handleCreateIndexTool(w, args) ==
    IF ~IsString(args.index_name) THEN Result("ErrArg", w, "")
    ELSE IF ~IsString(args.table_name) THEN Result("ErrArg", w, "")
    ELSE IF args.columns = Absent \/ ~IsArray(args.columns) THEN Result("ErrArg", w, "")
    ELSE IF Len(args.columns.v) = 0 THEN Result("ErrArg", w, "")
    ELSE IF \E i \in 1..Len(args.columns.v) :
               \/ ~IsObject(args.columns.v[i])
               \/ ~IsString(args.columns.v[i].v.name)
         THEN Result("ErrArg", w, "")
    ELSE IndexRequested(w, args.index_name.v, args.table_name.v,
             [i \in 1..Len(args.columns.v) |->
                 IndexColumn(args.columns.v[i].v.name.v,
                             StringOr(args.columns.v[i].v.sort_order))],
             BoolOr(args.unique), BoolOr(args.if_not_exists),
             StringOr(args.where_clause))


(***************************************************************************)
(* The specification of create_table, describe_table and create_index:     *)
(* one call on a server started on a disk of TableDisks.                   *)
(***************************************************************************)
MaxColumns == 2

Column(name, type) == [name |-> name, type |-> type]

TableDatabases ==
    {Tabled([table \in {} |-> <<>>], <<>>),
     Tabled([table \in {"t"} |-> <<Column("a", "INT"), Column("b", "TEXT")>>], <<>>),
     Tabled([table \in {"t"} |-> <<Column("a", "INT"), Column("b", "TEXT")>>],
            <<Index("i", "t", FALSE, <<"a">>, "c")>>)}

TableDisks == {[f \in {"/d/a.db"} |-> db] : db \in TableDatabases}

TableNameArgs == {Absent, Num(1), Str("t"), Str("u"), Str("o'a")}

ColumnArgs ==
    {Obj(col) :
        col \in [name : {Absent, Num(1), Str(""), Str("a"), Str("b"), Str("a b")},
                 type : {Absent, Str(""), Str("INT")},
                 constraints : {Absent}]
                \cup [name : {Str("a")}, type : {Str("TEXT"), Str("int primary key")},
                      constraints : {Num(1), Str("NOT NULL")}]}

RECURSIVE ArraysUpTo(_, _)
ArraysUpTo(elements, n) ==
    IF n = 0 THEN {<<>>}
    ELSE LET shorter == ArraysUpTo(elements, n - 1)
         IN  shorter \cup {Append(l, a) : l \in shorter, a \in elements}

ColumnsArgs ==
    {Absent, Str("a"), Arr(<<Str("a")>>)}
        \cup {Arr(l) : l \in ArraysUpTo(ColumnArgs, MaxColumns)}

IndexColumnArgs ==
    {Obj(col) : col \in [name : {Num(1), Str("a"), Str("b")},
                         sort_order : {Absent, Str(""), Str("desc")}]}

IndexCalls ==
    [index_name : {Absent, Str(""), Str("i"), Str("j")},
     table_name : {Absent, Str(""), Str("t")},
     columns : {Absent, Str("a"), Arr(<<Str("a")>>)}
                   \cup {Arr(l) : l \in ArraysUpTo(IndexColumnArgs, MaxColumns)},
     unique : {Absent, Bool(TRUE)},
     if_not_exists : {Absent, Bool(TRUE)},
     where_clause : {Absent, Str(""), Str("a > 0")}]

TableInit ==
    \E disk \in TableDisks, args \in StmtStartArgs :
        \E start \in {main(disk, args, TRUE)} :
            /\ server = start.w.server
            /\ sqlite = start.w.sqlite
            /\ conns = start.w.conns
            /\ fs = start.w.fs
            /\ proc = start.proc
            /\ last = [op |-> "main", args |-> args, res |-> start.proc,
                       out |-> "", peak |-> Cardinality(start.w.conns),
                       before |-> 0, acc |-> <<>>]

CreateTableTool ==
    /\ proc = "running"
    /\ last.op = "main"
    /\ \E tableName \in TableNameArgs, columns \in ColumnsArgs :
          Return("create_table", [table_name |-> tableName, columns |-> columns],
                 handleCreateTable(World, tableName, columns))

DescribeTableTool ==
    /\ proc = "running"
    /\ last.op = "main"
    /\ \E tableName \in TableNameArgs :
          Return("describe_table", [table_name |-> tableName],
                 handleDescribeTable(World, tableName))

CreateIndexTool ==
    /\ proc = "running"
    /\ last.op = "main"
    /\ \E call \in IndexCalls :
          Return("create_index", call, handleCreateIndexTool(World, call))

TableNext == CreateTableTool \/ DescribeTableTool \/ CreateIndexTool

SpecTable == TableInit /\ [][TableNext]_vars


\* The columns of a create_table request as given: name and type of each.
GivenColumns(columns) ==
    [i \in 1..Len(columns) |->
        Column(StringOr(columns[i].v.name), StringOr(columns[i].v.type))]

\* A create_table request whose column list is empty, or that has a column
\* whose name or type is empty.
LacksColumn(columns) ==
    \/ Len(columns) = 0
    \/ \E i \in 1..Len(columns) :
          StringOr(columns[i].v.name) = "" \/ StringOr(columns[i].v.type) = ""

\* C26: after a create_table(name, columns) that succeeded on a database
\* with no table of that name, describe_table(name) returns exactly the
\* given columns, in the given order, each with the given name and declared
\* type; describe_table of a table that does not exist returns an empty
\* result without error; create_table with an empty column list, or with a
\* column whose name or type is empty, fails and creates no table.
C26_DescribeAfterCreate ==
    [][/\ (/\ last'.op = "create_table"
           /\ last'.res = "ok"
           /\ last'.args.table_name.v \notin Content(World).tables)
            => LET described ==
                       handleDescribeTable([server |-> server', sqlite |-> sqlite',
                                            conns |-> conns', fs |-> fs'],
                                           last'.args.table_name)
               IN  /\ described.res = "ok"
                   /\ described.out = GivenColumns(last'.args.columns.v)
       /\ (/\ last'.op = "describe_table"
           /\ IsString(last'.args.table_name)
           /\ IsOpen(World)
           /\ last'.args.table_name.v \notin Content(World).tables)
            => (last'.res = "ok" /\ last'.out = <<>>)
       /\ (/\ last'.op = "create_table"
           /\ IsString(last'.args.table_name)
           /\ last'.args.columns # Absent
           /\ IsArray(last'.args.columns)
           /\ \A i \in 1..Len(last'.args.columns.v) : IsObject(last'.args.columns.v[i])
           /\ LacksColumn(last'.args.columns.v))
            => (last'.res # "ok" /\ fs' = fs)]_vars


(***************************************************************************)
(* The two forms of index creation on the requests of create_index.        *)
(***************************************************************************)
\* The arguments of a create_index request have the types the handler reads.
WellTyped(args) ==
    /\ IsString(args.index_name)
    /\ IsString(args.table_name)
    /\ args.columns # Absent
    /\ IsArray(args.columns)
    /\ \A i \in 1..Len(args.columns.v) :
          IsObject(args.columns.v[i]) /\ IsString(args.columns.v[i].v.name)

\* The options handleCreateIndexTool builds from a well-typed request.
OptionsOf(args) ==
    IndexOptions(args.index_name.v, args.table_name.v,
                 [i \in 1..Len(args.columns.v) |->
                     IndexColumn(args.columns.v[i].v.name.v,
                                 StringOr(args.columns.v[i].v.sort_order))],
                 BoolOr(args.unique), BoolOr(args.if_not_exists),
                 StringOr(args.where_clause))

\* What CreateIndex does, up to s.db.Exec, on the names of options.
SimpleOf(options) ==
    CreateIndexQuery(options.IndexName, options.TableName,
                     [i \in 1..Len(options.Columns) |-> options.Columns[i].Name],
                     options.Unique, options.IfNotExists)

ValidationErrors == {"ErrNoIndexName", "ErrNoTableName", "ErrNoColumns"}

\* options has an empty index name, an empty table name or no column.
Incomplete(options) ==
    options.IndexName = "" \/ options.TableName = "" \/ Len(options.Columns) = 0

\* C22: both forms of index creation, CreateIndex and CreateIndexWithOptions,
\* reject a request with an empty index name, an empty table name or an
\* empty column list with a validation error and send no statement to the
\* engine.
C22_FormsValidate ==
    (/\ last.op = "create_index"
     /\ WellTyped(last.args)
     /\ Incomplete(OptionsOf(last.args)))
       => /\ SimpleOf(OptionsOf(last.args)).err \in ValidationErrors
          /\ SimpleOf(OptionsOf(last.args)).sent = <<>>
          /\ CreateIndexWithOptionsQuery(OptionsOf(last.args)).err \in ValidationErrors
          /\ CreateIndexWithOptionsQuery(OptionsOf(last.args)).sent = <<>>
          /\ \A i \in 1..Len(last.acc) : last.acc[i].call # "Exec"


\* The request asks for more than one column, a where clause, or a sort
\* order on some column.
Extended(options) ==
    \/ Len(options.Columns) > 1
    \/ options.WhereClause # ""
    \/ \E i \in 1..Len(options.Columns) : options.Columns[i].SortOrder # ""

\* C23: create_index uses the extended form exactly when the request has
\* more than one column, a non-empty where_clause or a sort order on some
\* column, and the simple form otherwise; on every request for which the
\* simple form is chosen, the statement the simple form sends is the one the
\* extended form would send.
C23_SimpleFormRefinesExtended ==
    (/\ last.op = "create_index"
     /\ WellTyped(last.args)
     /\ Len(last.args.columns.v) > 0)
       => /\ last.out.form = IF Extended(OptionsOf(last.args))
                             THEN "CreateIndexWithOptions" ELSE "CreateIndex"
          /\ last.out.form = "CreateIndex"
                => SimpleOf(OptionsOf(last.args)).sent
                       = CreateIndexWithOptionsQuery(OptionsOf(last.args)).sent


(***************************************************************************)
(* analyze_query.                                                          *)
(***************************************************************************)
\* SQLiteDB.AnalyzeQuery: the plan of the statement, which the engine
\* compiles and does not run.
AnalyzeQuery(w, query) ==
    IF ~IsOpen(w) THEN [err |-> "ErrClosed", rows |-> {}]
    ELSE IF Content(w).kind # "db" \/ Parse(query).op = "syntax error"
         THEN [err |-> "ErrEngine", rows |-> {}]
    ELSE [err |-> "ok", rows |-> {Parse(query).op}]

handleAnalyzeQueryTool(w, query) ==
    IF ~IsString(query) THEN Result("ErrArg", w, "")
    ELSE IF w.server.db = "nil"
         THEN After(<<Call("ExecuteQuery", query.v)>>, Result("panic", w, ""))
    ELSE LET plan == AnalyzeQuery(w, query.v)
         IN  After(<<Call("ExecuteQuery", query.v)>>,
                   IF plan.err # "ok" THEN Result("ErrAnalyze", w, "")
                   ELSE Result("ok", w, plan.rows))

(***************************************************************************)
(* The specification of the arguments: one call of a tool that has         *)
(* required arguments, with arguments that are missing, of the wrong type  *)
(* or well-formed.                                                         *)
(***************************************************************************)
ArgsDisks ==
    {[f \in files |->
         Tabled([table \in {"t"} |-> <<Column("a", "INT"), Column("b", "TEXT")>>],
                <<Index("i", "t", FALSE, <<"a">>, "c")>>)] :
        files \in {{"/d/a.db"}, {"/d/a.db", "/d/b.db"}}}

\* A missing argument and one of the wrong type.
BadScalars == {Absent, Num(1)}

GoodColumn == Obj([name |-> Str("a"), type |-> Str("INT"), constraints |-> Absent])

ArgsColumns ==
    {Absent, Str("a"), Arr(<<Str("a")>>), Arr(<<GoodColumn, Str("a")>>),
     Arr(<<GoodColumn,
           Obj([name |-> Num(1), type |-> Str("INT"), constraints |-> Absent])>>),
     Arr(<<GoodColumn,
           Obj([name |-> Str("b"), type |-> Absent, constraints |-> Absent])>>),
     Arr(<<GoodColumn>>)}

ArgsIndexColumns ==
    {Absent, Str("a"), Arr(<<Str("a")>>),
     Arr(<<Obj([name |-> Str("a"), sort_order |-> Absent]),
           Obj([name |-> Num(1), sort_order |-> Absent])>>),
     Arr(<<Obj([name |-> Absent, sort_order |-> Str("desc")])>>),
     Arr(<<Obj([name |-> Str("a"), sort_order |-> Absent])>>)}

ArgsStatements ==
    {Absent, Str("COMMIT"), Arr(<<Num(1)>>), Arr(<<Str(InsertText(1)), Num(1)>>),
     Arr(<<Str(InsertText(1))>>)}

ArgsInit ==
    \E disk \in ArgsDisks, args \in StmtStartArgs :
        \E start \in {main(disk, args, TRUE)} :
            /\ server = start.w.server
            /\ sqlite = start.w.sqlite
            /\ conns = start.w.conns
            /\ fs = start.w.fs
            /\ proc = start.proc
            /\ last = [op |-> "main", args |-> args, res |-> start.proc,
                       out |-> "", peak |-> Cardinality(start.w.conns),
                       before |-> 0, acc |-> <<>>]

ArgsQuery ==
    /\ proc = "running" /\ last.op = "main"
    /\ \E query \in BadScalars \cup {Str("SELECT * FROM T")} :
          Return("query", [query |-> query], handleQuery(World, query))

ArgsExecute ==
    /\ proc = "running" /\ last.op = "main"
    /\ \E statement \in BadScalars \cup {Str(InsertText(1))} :
          Return("execute", [statement |-> statement], handleExecute(World, statement))

ArgsTransaction ==
    /\ proc = "running" /\ last.op = "main"
    /\ \E statements \in ArgsStatements :
          Return("transaction", [statements |-> statements],
                 handleTransaction(World, statements))

ArgsCreateTable ==
    /\ proc = "running" /\ last.op = "main"
    /\ \E tableName \in BadScalars \cup {Str("u")}, columns \in ArgsColumns :
          Return("create_table", [table_name |-> tableName, columns |-> columns],
                 handleCreateTable(World, tableName, columns))

ArgsDescribeTable ==
    /\ proc = "running" /\ last.op = "main"
    /\ \E tableName \in BadScalars \cup {Str("t")} :
          Return("describe_table", [table_name |-> tableName],
                 handleDescribeTable(World, tableName))

ArgsDropTable ==
    /\ proc = "running" /\ last.op = "main"
    /\ \E tableName \in BadScalars \cup {Str("t")} :
          Return("drop_table", [table_name |-> tableName],
                 handleDropTableTool(World, tableName))

ArgsCreateIndex ==
    /\ proc = "running" /\ last.op = "main"
    /\ \E call \in [index_name : BadScalars \cup {Str("j")},
                    table_name : BadScalars \cup {Str("t")},
                    columns : ArgsIndexColumns,
                    unique : {Absent}, if_not_exists : {Absent},
                    where_clause : {Absent}] :
          Return("create_index", call, handleCreateIndexTool(World, call))

ArgsListIndexes ==
    /\ proc = "running" /\ last.op = "main"
    /\ \E tableName \in BadScalars \cup {Str("t")} :
          Return("list_indexes", [table_name |-> tableName],
                 handleListIndexesTool(World, tableName))

ArgsDropIndex ==
    /\ proc = "running" /\ last.op = "main"
    /\ \E indexName \in BadScalars \cup {Str("i")} :
          Return("drop_index", [index_name |-> indexName],
                 handleDropIndexTool(World, indexName))

ArgsAnalyzeQuery ==
    /\ proc = "running" /\ last.op = "main"
    /\ \E query \in BadScalars \cup {Str("SELECT * FROM T"), Str("X")} :
          Return("analyze_query", [query |-> query],
                 handleAnalyzeQueryTool(World, query))

ArgsCreateDatabase ==
    /\ proc = "running" /\ last.op = "main"
    /\ \E directory \in BadScalars \cup {Str("/d")} :
          Return("create_database", [directory |-> directory],
                 handleCreateDatabase(World, directory, Absent, Absent, 9999))

ArgsDatabaseExists ==
    /\ proc = "running" /\ last.op = "main"
    /\ \E dbPath \in BadScalars \cup {Str("/d/b.db")} :
          Return("database_exists", [db_path |-> dbPath],
                 handleDatabaseExists(World, dbPath))

ArgsSwitchDatabase ==
    /\ proc = "running" /\ last.op = "main"
    /\ \E dbPath \in BadScalars \cup {Str("/d/b.db")} :
          Return("switch_database", [db_path |-> dbPath],
                 handleSwitchDatabase(World, dbPath, TRUE))

ArgsListDatabaseFiles ==
    /\ proc = "running" /\ last.op = "main"
    /\ \E directory \in BadScalars \cup {Str("/d")} :
          Return("list_database_files", [directory |-> directory],
                 handleListDatabaseFiles(World, directory))

ArgsDeleteDatabase ==
    /\ proc = "running" /\ last.op = "main"
    /\ \E dbPath \in BadScalars \cup {Str("/d/b.db")},
          confirm \in {Absent, Num(1), Str("true"), Bool(TRUE)} :
          Return("delete_database", [db_path |-> dbPath, confirm |-> confirm],
                 handleDeleteDatabase(World, dbPath, confirm))

ArgsNext ==
    \/ ArgsQuery
    \/ ArgsExecute
    \/ ArgsTransaction
    \/ ArgsCreateTable
    \/ ArgsDescribeTable
    \/ ArgsDropTable
    \/ ArgsCreateIndex
    \/ ArgsListIndexes
    \/ ArgsDropIndex
    \/ ArgsAnalyzeQuery
    \/ ArgsCreateDatabase
    \/ ArgsDatabaseExists
    \/ ArgsSwitchDatabase
    \/ ArgsListDatabaseFiles
    \/ ArgsDeleteDatabase

SpecArgs == ArgsInit /\ [][ArgsNext]_vars


\* An array argument that is missing, not an array, or has an element that
\* Shaped does not accept.
BadArray(value, Shaped(_)) ==
    \/ value = Absent
    \/ ~IsArray(value)
    \/ \E i \in 1..Len(value.v) : ~Shaped(value.v[i])

\* The elements of columns that create_table and create_index require: an
\* object with a string name and, for a table, a string type.
TableColumnShaped(col) == IsObject(col) /\ IsString(col.v.name) /\ IsString(col.v.type)
IndexColumnShaped(col) == IsObject(col) /\ IsString(col.v.name)

\* A required argument of the call of tool op is missing or has the wrong
\* type.
BadCall(op, args) ==
    CASE op \in {"query", "analyze_query"} -> ~IsString(args.query)
      [] op = "execute" -> ~IsString(args.statement)
      [] op = "transaction" -> BadArray(args.statements, IsString)
      [] op = "create_table" ->
             ~IsString(args.table_name) \/ BadArray(args.columns, TableColumnShaped)
      [] op \in {"describe_table", "drop_table", "list_indexes"} ->
             ~IsString(args.table_name)
      [] op = "create_index" ->
             \/ ~IsString(args.index_name)
             \/ ~IsString(args.table_name)
             \/ BadArray(args.columns, IndexColumnShaped)
      [] op = "drop_index" -> ~IsString(args.index_name)
      [] op \in {"create_database", "list_database_files"} -> ~IsString(args.directory)
      [] op \in {"database_exists", "switch_database"} -> ~IsString(args.db_path)
      [] op = "delete_database" -> ~IsString(args.db_path) \/ ~IsBool(args.confirm)
      [] OTHER -> FALSE

\* The calls a handler makes that execute no statement and touch no file.
Harmless == {"CreateTable", "validateFilePath", "validateDirectory"}

\* C21: a tool call in which a required argument is missing or has the wrong
\* type, an element of columns or statements of the wrong shape included,
\* returns an error before any statement is executed and before any file is
\* created, deleted or opened: the databases, the files and the active
\* connection are after the call what they were before it.
C21_BadArgumentsChangeNothing ==
    [][(last'.op # "main" /\ BadCall(last'.op, last'.args))
         => /\ last'.res \notin {"ok", "panic"}
            /\ fs' = fs
            /\ conns' = conns
            /\ sqlite' = sqlite
            /\ server' = server
            /\ \A i \in 1..Len(last'.acc) : last'.acc[i].call \in Harmless]_vars

\* C21 witness: on a connected server, create_table with a well-formed
\* column followed by a column whose name is a number was refused, no
\* table u exists, and no statement was sent.
C21_Witness ==
    /\ last.op = "create_table"
    /\ last.args.table_name = Str("u")
    /\ last.args.columns
         = Arr(<<GoodColumn,
                 Obj([name |-> Num(1), type |-> Str("INT"), constraints |-> Absent])>>)
    /\ last.res = "ErrCreateTable"
    /\ IsOpen(World)
    /\ "u" \notin Content(World).tables
    /\ last.acc = <<Call("CreateTable", "u")>>


(***************************************************************************)
(* Two tool calls in flight at once.  Neither SQLiteServer nor SQLiteDB    *)
(* holds a lock, so the steps of the two handlers interleave.  last.args   *)
(* holds the two requests and last.out, per call, where the call is (pc),  *)
(* the connection it holds (conn: the *sql.DB it loaded from s.db or       *)
(* opened), whether a step of it ran on a closed connection (closed) and   *)
(* what it returned (res).  last.issued counts the connections opened so   *)
(* far, which names them apart.                                            *)
(***************************************************************************)
FlightPaths == {"/d/a.db", "/d/b.db", "/d/c.db"}

FlightDisk == [f \in FlightPaths |-> Database({"t"}, {})]

Request(tool, arg) == [tool |-> tool, arg |-> arg]

StatementTools == {"query", "execute", "transaction"}

\* The pairs of requests: a switch_database with a query, execute or
\* transaction, and two switch_database.
FlightPairs ==
    {<<Request("switch_database", path), Request(tool, "")>> :
        path \in FlightPaths, tool \in StatementTools}
    \cup {<<Request("switch_database", p1), Request("switch_database", p2)>> :
             p1 \in FlightPaths, p2 \in FlightPaths}

NotStarted == [pc |-> "start", conn |-> [id |-> 0, file |-> ""], closed |-> FALSE,
            res |-> ""]

FlightInit ==
    \E pair \in FlightPairs :
        \E start \in {main(FlightDisk, <<"/d">>, TRUE)} :
            /\ server = start.w.server
            /\ sqlite = start.w.sqlite
            /\ conns = start.w.conns
            /\ fs = start.w.fs
            /\ proc = start.proc
            /\ last = [op |-> "in flight", args |-> pair, res |-> "",
                       out |-> <<NotStarted, NotStarted>>,
                       peak |-> Cardinality(start.w.conns), before |-> 0,
                       acc |-> <<>>, issued |-> Cardinality(start.w.conns)]

\* Call c becomes call.
Moved(c, call) ==
    last' = [last EXCEPT !.out[c] = call,
                         !.peak = Max(last.peak, Cardinality(conns'))]

At(c, tool, pc) ==
    /\ proc = "running"
    /\ last.args[c].tool \in tool
    /\ last.out[c].pc = pc

\* handleSwitchDatabase up to s.db.SwitchDatabase: the path guard and
\* DatabaseExists.
SwitchCheck(c) ==
    /\ At(c, {"switch_database"}, "start")
    /\ UNCHANGED <<server, sqlite, conns, proc>>
    /\ \E dbPath \in {last.args[c].arg} :
          \E check \in {DatabaseExists(fs, dbPath)} :
             /\ fs' = check.fs
             /\ Moved(c, IF validateFilePath(server.allowedDirs, dbPath) # "ok"
                         THEN [last.out[c] EXCEPT !.pc = "done",
                                                  !.res = "ErrFileNotAllowed"]
                         ELSE IF ~check.exists
                              THEN [last.out[c] EXCEPT !.pc = "done",
                                                       !.res = "ErrNotFound"]
                         ELSE [last.out[c] EXCEPT !.pc = "close"])

\* SwitchDatabase: s.db.Close() of the connection s.db holds now.
SwitchClose(c) ==
    /\ At(c, {"switch_database"}, "close")
    /\ UNCHANGED <<server, sqlite, fs, proc>>
    /\ conns' = conns \ {sqlite.db.id}
    /\ Moved(c, [last.out[c] EXCEPT !.pc = "open"])

\* SwitchDatabase: sql.Open and db.Ping of the new path.
SwitchOpen(c) ==
    /\ At(c, {"switch_database"}, "open")
    /\ UNCHANGED <<server, sqlite, proc>>
    /\ conns' = conns \cup {last.issued + 1}
    /\ fs' = AfterOpen(fs, last.args[c].arg)
    /\ last' = [last EXCEPT
                  !.out[c] = [last.out[c] EXCEPT
                                !.pc = "set db",
                                !.conn = [id |-> last.issued + 1,
                                          file |-> Clean(last.args[c].arg)]],
                  !.issued = last.issued + 1,
                  !.peak = Max(last.peak, Cardinality(conns'))]

\* SwitchDatabase: s.db = db.
SwitchSetDb(c) ==
    /\ At(c, {"switch_database"}, "set db")
    /\ UNCHANGED <<server, conns, fs, proc>>
    /\ sqlite' = [sqlite EXCEPT !.db = last.out[c].conn]
    /\ Moved(c, [last.out[c] EXCEPT !.pc = "set path"])

\* SwitchDatabase: s.dbPath = newDbPath.
SwitchSetPath(c) ==
    /\ At(c, {"switch_database"}, "set path")
    /\ UNCHANGED <<server, conns, fs, proc>>
    /\ sqlite' = [sqlite EXCEPT !.dbPath = last.args[c].arg]
    /\ Moved(c, [last.out[c] EXCEPT !.pc = "record"])

\* handleSwitchDatabase: s.dbPath = dbPath, and the return.
SwitchRecord(c) ==
    /\ At(c, {"switch_database"}, "record")
    /\ UNCHANGED <<sqlite, conns, fs, proc>>
    /\ server' = [server EXCEPT !.dbPath = last.args[c].arg]
    /\ Moved(c, [last.out[c] EXCEPT !.pc = "done", !.res = "ok"])

\* ExecuteQuery, ExecuteStatement, Transaction: the load of s.db.
StatementLoad(c) ==
    /\ At(c, StatementTools, "start")
    /\ UNCHANGED <<server, sqlite, conns, fs, proc>>
    /\ Moved(c, [last.out[c] EXCEPT !.pc = "run", !.conn = sqlite.db])

\* s.db.Query, s.db.Exec, s.db.Begin on the connection loaded: an error on a
\* connection that was closed.
StatementRun(c) ==
    /\ At(c, StatementTools, "run")
    /\ UNCHANGED <<server, sqlite, conns, fs, proc>>
    /\ Moved(c, IF last.out[c].conn.id \notin conns
                THEN [last.out[c] EXCEPT !.pc = "done", !.closed = TRUE,
                                         !.res = "ErrClosed"]
                ELSE IF last.args[c].tool = "transaction"
                     THEN [last.out[c] EXCEPT !.pc = "commit"]
                ELSE [last.out[c] EXCEPT !.pc = "done", !.res = "ok"])

\* The callback of handleTransaction and tx.Commit on the connection the
\* transaction began on.  When the connection was closed since, the driver
\* either finishes the transaction or fails it.
TransactionCommit(c) ==
    /\ At(c, {"transaction"}, "commit")
    /\ UNCHANGED <<server, sqlite, conns, fs, proc>>
    /\ \E res \in IF last.out[c].conn.id \in conns THEN {"ok"} ELSE {"ok", "ErrClosed"} :
          Moved(c, [last.out[c] EXCEPT !.pc = "done", !.res = res,
                                       !.closed = last.out[c].conn.id \notin conns])

FlightNext ==
    \E c \in {1, 2} :
        \/ SwitchCheck(c)
        \/ SwitchClose(c)
        \/ SwitchOpen(c)
        \/ SwitchSetDb(c)
        \/ SwitchSetPath(c)
        \/ SwitchRecord(c)
        \/ StatementLoad(c)
        \/ StatementRun(c)
        \/ TransactionCommit(c)

SpecFlight == FlightInit /\ [][FlightNext]_vars

\* Both calls returned.
BothReturned == \A c \in {1, 2} : last.out[c].pc = "done"

\* C29: with two tool calls in flight at once, under every interleaving of a
\* switch_database with a query, execute or transaction the latter runs
\* entirely on a connection that is open, the old one or the new one, never
\* one the switch has closed; and under every interleaving of two
\* switch_database the path recorded by the server and the path recorded by
\* the handle agree once both calls have returned.
C29_InterleavedCalls ==
    last.op = "in flight" =>
        /\ \A c \in {1, 2} :
              last.args[c].tool \in StatementTools => ~last.out[c].closed
        /\ (/\ BothReturned
            /\ \A c \in {1, 2} : last.args[c].tool = "switch_database")
              => server.dbPath = sqlite.dbPath

====
